---- MODULE Spec2Model ----
(***************************************************************************)
(* Model of the coverage data client of the chromium-coverage Gerrit       *)
(* plugin (web/coverage.ts): the CoverageClient with its single-entry      *)
(* coverageData cache, the fetches it starts, the converters of the        *)
(* service's JSON responses and the accessor calls that suspend on the     *)
(* cached promises.                                                        *)
(*                                                                         *)
(* Encoding of JavaScript values:                                          *)
(*   - a string the code takes apart (host, path name, project) is a       *)
(*     sequence of one-character strings; a string used only as a key      *)
(*     (a file path of the coverage data) is a TLA+ string;                *)
(*   - a number is a record [t, v]: Num(n), NaN, Infinity, Undefined and   *)
(*     Null share the shape so that they can be compared;                  *)
(*   - a JSON object is a function whose DOMAIN holds the properties that  *)
(*     are present; an object-valued property that may be null is          *)
(*     <<>> for null and <<obj>> for an object;                            *)
(*   - an object used as a map (coverageRanges, coveragePercentages) is a  *)
(*     sequence of <<key, value>> pairs in insertion order;                *)
(*   - a promise is a record [kind, changeInfo, state, net] in the         *)
(*     sequence promises; a reference to it is its index. net names the    *)
(*     network outcome a fulfilled promise was settled with, and           *)
(*     PromiseValue gives the value it was fulfilled with.                 *)
(***************************************************************************)
EXTENDS Integers, Sequences, FiniteSets, TLC

VARIABLES
    coverageData,   \* this.coverageData: <<>> (null) or <<[changeInfo, rangesPromise, percentagesPromise]>>
    promises,       \* every promise created by fetchCoverageRanges / fetchCoveragePercentages
    calls,          \* accessor calls suspended at their await
    returned,       \* what the last step returned to its caller: <<>> (nothing) or <<record>>
    coverageConfig, \* this.coverageConfig: <<>> (null) or <<[project, configPromise]>>
    configPromises, \* every promise returned by plugin.restApi().get(...)
    columnCalls,    \* showPercentageColumns calls suspended at their await
    shown,          \* the shown property of each attached view
    input,          \* the arguments a function is called with on its own: <<>> or <<record>>
    output,         \* what that call came to: <<>> (not called yet) or <<record>>
    contentView,    \* a percentage content view: its kind, changeNum, patchRange, path and percentageText
    providerCalls   \* the computePercentage calls of the view suspended at `await provider(...)`

dataVars == <<coverageData, promises, calls>>
configVars == <<coverageConfig, configPromises, columnCalls, shown>>
viewVars == <<contentView, providerCalls>>
callVars == <<input, output, viewVars>>
vars == <<coverageData, promises, calls, returned, coverageConfig, configPromises,
          columnCalls, shown, input, output, contentView, providerCalls>>

(***************************************************************************)
(* JavaScript values                                                       *)
(***************************************************************************)
Num(n) == [t |-> "num", v |-> n]
NaN == [t |-> "nan", v |-> 0]
Infinity == [t |-> "inf", v |-> 1]
NegInfinity == [t |-> "inf", v |-> -1]
Undefined == [t |-> "undefined", v |-> 0]
Null == [t |-> "null", v |-> 0]

IsNum(x) == x.t = "num"

\* isNaN(x): true of NaN and of undefined (Number(undefined) is NaN); null converts to 0.
isNaN(x) == x.t \in {"nan", "undefined"}

\* x <= 0 on numbers; any comparison with NaN or undefined is false, null compares as 0.
LeqZero(x) ==
    \/ x.t = "num" /\ x.v <= 0
    \/ x.t = "inf" /\ x.v < 0
    \/ x.t = "null"

\* x > 0
GtZero(x) ==
    \/ x.t = "num" /\ x.v > 0
    \/ x.t = "inf" /\ x.v > 0

\* x < n for an integer n
LessThanInt(x, n) ==
    \/ x.t = "num" /\ x.v < n
    \/ x.t = "inf" /\ x.v < 0
    \/ x.t = "null" /\ 0 < n

\* Truthiness of a number value: 0, NaN, undefined and null are falsy.
TruthyNum(x) ==
    \/ x.t = "num" /\ x.v # 0
    \/ x.t = "inf"

(***************************************************************************)
(* Strings as sequences of characters                                      *)
(***************************************************************************)
Min(a, b) == IF a < b THEN a ELSE b
Max(a, b) == IF a > b THEN a ELSE b

\* String.prototype.startsWith
StartsWith(s, prefix) ==
    /\ Len(s) >= Len(prefix)
    /\ \A k \in 1..Len(prefix) : s[k] = prefix[k]

\* needle occurs in s at the 0-based index i
OccursAt(s, needle, i) ==
    /\ i + Len(needle) <= Len(s)
    /\ \A k \in 1..Len(needle) : s[i + k] = needle[k]

RECURSIVE IndexOfFrom(_, _, _)
IndexOfFrom(s, needle, i) ==
    IF i + Len(needle) > Len(s) THEN -1
    ELSE IF OccursAt(s, needle, i) THEN i
    ELSE IndexOfFrom(s, needle, i + 1)

\* String.prototype.indexOf: 0-based index of the first occurrence, -1 if none.
IndexOf(s, needle) == IndexOfFrom(s, needle, 0)

\* String.prototype.substring(start, end): arguments are clamped to
\* 0..length and swapped when start > end.
Substring(s, start, end) ==
    LET a == Max(0, Min(start, Len(s)))
        b == Max(0, Min(end, Len(s)))
    IN  SubSeq(s, Min(a, b) + 1, Max(a, b))

\* String.prototype.substring(start)
SubstringFrom(s, start) == Substring(s, start, Len(s))

(***************************************************************************)
(* Objects used as maps, in insertion order                                *)
(***************************************************************************)
ObjKeys(o) == [i \in 1..Len(o) |-> o[i][1]]

ObjHas(o, k) == \E i \in 1..Len(o) : o[i][1] = k

ObjGet(o, k) == o[CHOOSE i \in 1..Len(o) : o[i][1] = k][2]

\* o[k] = v: overwrites in place when the key exists, appends otherwise.
ObjSet(o, k, v) ==
    IF ObjHas(o, k)
    THEN [i \in 1..Len(o) |-> IF o[i][1] = k THEN <<k, v>> ELSE o[i]]
    ELSE Append(o, <<k, v>>)

(***************************************************************************)
(* Program constants                                                       *)
(***************************************************************************)
LOW_COVERAGE_WARNING_BAR == 70

CanaryPrefix == <<"c", "a", "n", "a", "r", "y", "-">>
Polymer1Prefix == <<"p", "o", "l", "y", "m", "e", "r", "1", "-">>
Polymer2Prefix == <<"p", "o", "l", "y", "m", "e", "r", "2", "-">>

HOST_PREFIXES == <<CanaryPrefix, Polymer1Prefix, Polymer2Prefix>>

(***************************************************************************)
(* Host Locator                                                            *)
(***************************************************************************)
\* Faulty variant: the loop has no break, every prefix found in turn is stripped.
RECURSIVE StripPrefixesFrom(_, _)
StripPrefixesFrom(host, i) ==
    IF i > Len(HOST_PREFIXES) THEN host
    ELSE IF StartsWith(host, HOST_PREFIXES[i])
         THEN StripPrefixesFrom(SubstringFrom(host, Len(HOST_PREFIXES[i])), i + 1)
         ELSE StripPrefixesFrom(host, i + 1)

getNormalizedHostWithoutBreak(host) == StripPrefixesFrom(host, 1)

\* The loop strips the first prefix of HOST_PREFIXES the host starts with and breaks.
getNormalizedHost(host) ==
    LET matching == {i \in 1..Len(HOST_PREFIXES) : StartsWith(host, HOST_PREFIXES[i])}
    IN  IF matching = {} THEN host
        ELSE LET first == CHOOSE i \in matching : \A j \in matching : i <= j
             IN  SubstringFrom(host, Len(HOST_PREFIXES[first]))

\* Returns [ok |-> TRUE, value |-> project] or [ok |-> FALSE, error |-> ...] for a throw.
parseProjectFromPathName(pathName) ==
    IF ~StartsWith(pathName, <<"/", "c", "/">>)
    THEN [ok |-> FALSE, error |-> "is expected to start with /c/"]
    ELSE LET indexEnd == IndexOf(pathName, <<"/", "+">>)
         IN  IF indexEnd = -1
             THEN [ok |-> FALSE, error |-> "is expected to contain /+"]
             ELSE [ok |-> TRUE, value |-> Substring(pathName, 3, indexEnd)]

(***************************************************************************)
(* Fetch & Parse Layer                                                     *)
(***************************************************************************)
\* What the network hands back for one GET: a response with a status whose
\* body is a JSON object, the JSON value null, or text that response.json()
\* cannot parse; or a fetch() that rejects.
HttpResponse(status, body) == [arrived |-> "response", status |-> status, body |-> body]
NullResponse(status) == [arrived |-> "null", status |-> status, body |-> Null]
UnparsableResponse(status) == [arrived |-> "unparsable", status |-> status, body |-> <<>>]
NetworkError == [arrived |-> "networkError", status |-> 0, body |-> <<>>]

\* response.ok
ResponseOk(status) == status >= 200 /\ status <= 299

COVERAGE_SERVICE_ENDPOINT_SUFFIX == "/coverage/api/coverage-data"
GOB_COVERAGE_HOST == "https://gob-coverage.googleplex.com"
CHROMIUM_COVERAGE_HOST == "https://findit-for-me.appspot.com"

ChromiumReviewHost == <<"c", "h", "r", "o", "m", "i", "u", "m", "-", "r", "e", "v", "i", "e", "w", ".", "g", "o", "o", "g", "l", "e", "s", "o", "u", "r", "c", "e", ".", "c", "o", "m">>
LibassistantCorpHost == <<"l", "i", "b", "a", "s", "s", "i", "s", "t", "a", "n", "t", "-", "i", "n", "t", "e", "r", "n", "a", "l", "-", "r", "e", "v", "i", "e", "w", ".", "g", "i", "t", ".", "c", "o", "r", "p", ".", "g", "o", "o", "g", "l", "e", ".", "c", "o", "m">>
LibassistantHost == <<"l", "i", "b", "a", "s", "s", "i", "s", "t", "a", "n", "t", "-", "i", "n", "t", "e", "r", "n", "a", "l", "-", "r", "e", "v", "i", "e", "w", ".", "g", "o", "o", "g", "l", "e", "s", "o", "u", "r", "c", "e", ".", "c", "o", "m">>

GERRIT_TO_COVERAGE_HOST ==
    << <<ChromiumReviewHost, CHROMIUM_COVERAGE_HOST>>,
       <<LibassistantCorpHost, GOB_COVERAGE_HOST>>,
       <<LibassistantHost, GOB_COVERAGE_HOST>> >>

\* Number.prototype.toString of the numbers a key can hold.
NumToString(x) ==
    CASE x = Num(0) -> <<"0">>
      [] x = Num(1) -> <<"1">>
      [] x = Num(2) -> <<"2">>
      [] x = Num(-1) -> <<"-", "1">>
      [] OTHER -> <<"N", "a", "N">>

\* The percent-encoding URLSearchParams.toString applies to a value: of the
\* characters that hosts and projects are made of here only "/" is escaped.
RECURSIVE FormEncode(_)
FormEncode(str) ==
    IF str = <<>> THEN <<>>
    ELSE (IF str[1] = "/" THEN <<"%", "2", "F">> ELSE <<str[1]>>) \o FormEncode(Tail(str))

\* The properties the table, an object literal, inherits from Object.prototype,
\* each with the string that adding the suffix turns its value into.
ObjectPrototype ==
    << <<<<"c", "o", "n", "s", "t", "r", "u", "c", "t", "o", "r">>,
         "function Object() { [native code] }">>,
       <<<<"h", "a", "s", "O", "w", "n", "P", "r", "o", "p", "e", "r", "t", "y">>,
         "function hasOwnProperty() { [native code] }">>,
       <<<<"i", "s", "P", "r", "o", "t", "o", "t", "y", "p", "e", "O", "f">>,
         "function isPrototypeOf() { [native code] }">>,
       <<<<"p", "r", "o", "p", "e", "r", "t", "y", "I", "s", "E", "n", "u", "m", "e", "r", "a", "b", "l", "e">>,
         "function propertyIsEnumerable() { [native code] }">>,
       <<<<"t", "o", "L", "o", "c", "a", "l", "e", "S", "t", "r", "i", "n", "g">>,
         "function toLocaleString() { [native code] }">>,
       <<<<"t", "o", "S", "t", "r", "i", "n", "g">>,
         "function toString() { [native code] }">>,
       <<<<"v", "a", "l", "u", "e", "O", "f">>,
         "function valueOf() { [native code] }">>,
       <<<<"_", "_", "d", "e", "f", "i", "n", "e", "G", "e", "t", "t", "e", "r", "_", "_">>,
         "function __defineGetter__() { [native code] }">>,
       <<<<"_", "_", "d", "e", "f", "i", "n", "e", "S", "e", "t", "t", "e", "r", "_", "_">>,
         "function __defineSetter__() { [native code] }">>,
       <<<<"_", "_", "l", "o", "o", "k", "u", "p", "G", "e", "t", "t", "e", "r", "_", "_">>,
         "function __lookupGetter__() { [native code] }">>,
       <<<<"_", "_", "l", "o", "o", "k", "u", "p", "S", "e", "t", "t", "e", "r", "_", "_">>,
         "function __lookupSetter__() { [native code] }">>,
       <<<<"_", "_", "p", "r", "o", "t", "o", "_", "_">>,
         "[object Object]">> >>

\* GERRIT_TO_COVERAGE_HOST[changeInfo.host], or CHROMIUM_COVERAGE_HOST when
\* that is falsy: an own property of the table, else an inherited one, else
\* undefined.
CoverageHost(host) ==
    IF ObjHas(GERRIT_TO_COVERAGE_HOST, host)
    THEN ObjGet(GERRIT_TO_COVERAGE_HOST, host)
    ELSE IF ObjHas(ObjectPrototype, host)
    THEN ObjGet(ObjectPrototype, host)
    ELSE CHROMIUM_COVERAGE_HOST

\* The url of the GET: the endpoint and the query string, as the sequence of
\* its name=value pairs with the values percent-encoded.
RequestUrl(changeInfo, kind) ==
    [endpoint |-> CoverageHost(changeInfo.host) \o COVERAGE_SERVICE_ENDPOINT_SUFFIX,
     params |-> << <<"host", FormEncode(changeInfo.host)>>,
                   <<"project", FormEncode(changeInfo.project)>>,
                   <<"change", FormEncode(NumToString(changeInfo.changeNum))>>,
                   <<"patchset", FormEncode(NumToString(changeInfo.patchNum))>>,
                   <<"type", FormEncode(<<kind>>)>>,
                   <<"format", <<"json">> >>,
                   <<"concise", <<"1">> >> >>]

\* The GETs fetchCoverageJsonData issues: none when it throws before fetch(url).
RequestsIssued(changeInfo, kind) ==
    IF (kind # "lines" /\ kind # "percentages") \/ changeInfo.patchNum = Undefined
    THEN <<>>
    ELSE << RequestUrl(changeInfo, kind) >>

\* The outcome of fetchCoverageJsonData once the network outcome net is in:
\* [ok |-> TRUE, value |-> responseJson] or [ok |-> FALSE, error |-> message].
\* response.json() is awaited before the status is looked at, and the flags
\* are read from its value.
fetchCoverageJsonData(changeInfo, kind, net) ==
    IF kind # "lines" /\ kind # "percentages"
    THEN [ok |-> FALSE, error |-> "Kind is expected to be either lines or percentages"]
    ELSE IF changeInfo.patchNum = Undefined
    THEN [ok |-> FALSE, error |-> "Patch number is undefined, cannot get coverage data"]
    ELSE IF net.arrived = "networkError"
    THEN [ok |-> FALSE, error |-> "TypeError: Failed to fetch"]
    ELSE IF net.arrived = "unparsable"
    THEN [ok |-> FALSE, error |-> "SyntaxError: Unexpected token"]
    ELSE IF net.status = 400 /\ net.arrived = "null"
    THEN [ok |-> FALSE, error |-> "TypeError: Cannot read properties of null"]
    ELSE IF /\ net.status = 400
            /\ "is_project_supported" \in DOMAIN net.body
            /\ net.body.is_project_supported = FALSE
    THEN [ok |-> FALSE, error |-> "project is not supported for code coverage"]
    ELSE IF net.status = 500 /\ net.arrived = "null"
    THEN [ok |-> FALSE, error |-> "TypeError: Cannot read properties of null"]
    ELSE IF /\ net.status = 500
            /\ "is_service_enabled" \in DOMAIN net.body
            /\ net.body.is_service_enabled = FALSE
    THEN [ok |-> FALSE, error |-> "Code coverage service is temporarily disabled"]
    ELSE IF ~ResponseOk(net.status)
    THEN [ok |-> FALSE, error |-> "Request code coverage data returned http",
          status |-> net.status]
    ELSE [ok |-> TRUE, value |-> net.body]

(***************************************************************************)
(* Range Coalescer                                                         *)
(***************************************************************************)
\* Faulty variant: the comparator always answers -1, the lines stay unsorted.
LineGreaterNever(a, b) == FALSE

\* Faulty variant: the comparator orders the lines descending.
LineGreaterDescending(a, b) ==
    /\ "line" \in DOMAIN a /\ "line" \in DOMAIN b
    /\ IsNum(a.line) /\ IsNum(b.line)
    /\ a.line.v < b.line.v

\* The comparator of responseLines.sort: (a, b) => (a.line > b.line ? 1 : -1)
LineGreater(a, b) ==
    /\ "line" \in DOMAIN a /\ "line" \in DOMAIN b
    /\ IsNum(a.line) /\ IsNum(b.line)
    /\ a.line.v > b.line.v

RECURSIVE InsertLine(_, _)
InsertLine(sorted, x) ==
    IF sorted = <<>> THEN <<x>>
    ELSE IF LineGreater(x, sorted[Len(sorted)])
         THEN Append(sorted, x)
         ELSE Append(InsertLine(SubSeq(sorted, 1, Len(sorted) - 1), x), sorted[Len(sorted)])

\* responseLines.sort(...): ascending by line. (For entries that the comparator
\* calls equal the engine's order is kept as insertion from the left gives it.)
RECURSIVE SortLines(_)
SortLines(lines) ==
    IF lines = <<>> THEN <<>>
    ELSE InsertLine(SortLines(SubSeq(lines, 1, Len(lines) - 1)), lines[Len(lines)])

CoverageRange(isCovered, startLine, endLine) ==
    [side |-> "right",
     type |-> IF isCovered THEN "COVERED" ELSE "NOT_COVERED",
     code_range |-> [start_line |-> startLine, end_line |-> endLine]]

\* Faulty variant: only the line is checked, a null count passes.
LineEntryInvalidNoCountCheck(l) ==
    \/ "line" \notin DOMAIN l
    \/ ~TruthyNum(l.line)

\* !responseLine.line || responseLine.count === null
LineEntryInvalid(l) ==
    \/ "line" \notin DOMAIN l
    \/ ~TruthyNum(l.line)
    \/ ("count" \in DOMAIN l /\ l.count = Null)

\* Faulty variant: a line that was never hit counts as covered (count >= 0).
CountNotNegative(l) ==
    "count" \in DOMAIN l /\ (GtZero(l.count) \/ l.count = Num(0))

\* responseLine.count > 0 (a missing count is undefined, and undefined > 0 is false)
CountPositive(l) == "count" \in DOMAIN l /\ GtZero(l.count)

\* The inner loop over the sorted lines of one file, from index j on, with the
\* loop's locals; the final flush is done when the lines are exhausted.
RECURSIVE WalkLines(_, _, _, _, _, _)
WalkLines(lines, j, ranges, startLine, endLine, isCovered) ==
    IF j > Len(lines)
    THEN [ok |-> TRUE,
          value |-> IF startLine # -1
                    THEN Append(ranges, CoverageRange(isCovered, startLine, endLine))
                    ELSE ranges]
    ELSE LET responseLine == lines[j] IN
         IF LineEntryInvalid(responseLine)
         THEN [ok |-> FALSE,
               error |-> "Invalid coverage lines response format. Expecting line and count properties"]
         ELSE IF /\ startLine # -1
                 /\ responseLine.line = Num(endLine + 1)
                 /\ isCovered = CountPositive(responseLine)
         THEN WalkLines(lines, j + 1, ranges, startLine, endLine + 1, isCovered)
         ELSE WalkLines(lines, j + 1,
                        IF startLine # -1
                        THEN Append(ranges, CoverageRange(isCovered, startLine, endLine))
                        ELSE ranges,
                        responseLine.line.v, responseLine.line.v,
                        CountPositive(responseLine))

\* Faulty variant: only the presence of path is checked, an empty path passes.
LinesFileInvalidEmptyPathAllowed(f) ==
    \/ "path" \notin DOMAIN f
    \/ "lines" \notin DOMAIN f

\* !responseFile.path || !responseFile.lines
LinesFileInvalid(f) ==
    \/ "path" \notin DOMAIN f
    \/ f.path = ""
    \/ "lines" \notin DOMAIN f

\* Faulty variant: the conversion stops at the first file or line entry it
\* cannot take and returns the map of the files before it.
RECURSIVE ConvertLinesFilesKeepingPrefix(_, _, _)
ConvertLinesFilesKeepingPrefix(files, i, coverageRanges) ==
    IF i > Len(files) THEN [ok |-> TRUE, value |-> coverageRanges]
    ELSE LET responseFile == files[i] IN
         IF LinesFileInvalid(responseFile)
         THEN [ok |-> TRUE, value |-> coverageRanges]
         ELSE LET walked == WalkLines(SortLines(responseFile.lines), 1, <<>>, -1, -1, FALSE) IN
              IF ~walked.ok THEN [ok |-> TRUE, value |-> coverageRanges]
              ELSE ConvertLinesFilesKeepingPrefix(files, i + 1,
                                     ObjSet(coverageRanges, responseFile.path, walked.value))

\* The outer loop over responseFiles from index i on.
RECURSIVE ConvertLinesFiles(_, _, _)
ConvertLinesFiles(files, i, coverageRanges) ==
    IF i > Len(files) THEN [ok |-> TRUE, value |-> coverageRanges]
    ELSE LET responseFile == files[i] IN
         IF LinesFileInvalid(responseFile)
         THEN [ok |-> FALSE,
               error |-> "Invalid coverage lines response format. Expecting path and lines properties"]
         ELSE LET walked == WalkLines(SortLines(responseFile.lines), 1, <<>>, -1, -1, FALSE) IN
              IF ~walked.ok THEN walked
              ELSE ConvertLinesFiles(files, i + 1,
                                     ObjSet(coverageRanges, responseFile.path, walked.value))

convertResponseJsonToCoverageRanges(responseJson) ==
    IF responseJson = Null
    THEN [ok |-> FALSE, error |-> "TypeError: Cannot read properties of null"]
    ELSE IF "data" \notin DOMAIN responseJson
    THEN [ok |-> FALSE, error |-> "Invalid coverage lines response format. Expecting data property"]
    ELSE IF "files" \notin DOMAIN responseJson.data
    THEN [ok |-> FALSE, error |-> "Invalid coverage lines response format. Expecting files property"]
    ELSE ConvertLinesFiles(responseJson.data.files, 1, <<>>)

\* fetchCoverageRanges: await fetchCoverageJsonData(changeInfo, 'lines'), then convert.
fetchCoverageRanges(changeInfo, net) ==
    LET responseJson == fetchCoverageJsonData(changeInfo, "lines", net)
    IN  IF responseJson.ok
        THEN convertResponseJsonToCoverageRanges(responseJson.value)
        ELSE responseJson

(***************************************************************************)
(* Percentage Extractor                                                    *)
(***************************************************************************)
\* Math.round((covered * 100) / total) on integers: the nearest integer, a
\* half rounding up; a zero total divides to NaN or to an infinity.
RoundedPercentage(pair) ==
    IF pair.total = 0
    THEN IF pair.covered = 0 THEN NaN
         ELSE IF pair.covered > 0 THEN Infinity ELSE NegInfinity
    ELSE IF pair.total > 0
         THEN Num((200 * pair.covered + pair.total) \div (2 * pair.total))
         ELSE Num((200 * (-pair.covered) + (-pair.total)) \div (2 * (-pair.total)))

\* Truthiness of an optional pair property: present and not null.
HasPair(f, name) == name \in DOMAIN f /\ f[name] # <<>>

PercentageFields ==
    << <<"absolute", "absolute_coverage">>,
       <<"incremental", "incremental_coverage">>,
       <<"absolute_unit_tests", "absolute_unit_tests_coverage">>,
       <<"incremental_unit_tests", "incremental_unit_tests_coverage">> >>

\* Faulty variant: a field whose pair is absent or null is set to 0.
FileCovZeroForAbsent(responseFile) ==
    [name \in {PercentageFields[k][1] : k \in 1..Len(PercentageFields)} |->
        LET k == CHOOSE k \in 1..Len(PercentageFields) : PercentageFields[k][1] = name
        IN  IF HasPair(responseFile, PercentageFields[k][2])
            THEN RoundedPercentage(responseFile[PercentageFields[k][2]][1])
            ELSE Num(0)]

\* fileCov of one file: the four if-blocks, each setting a field when its pair is truthy.
FileCov(responseFile) ==
    LET present == {k \in 1..Len(PercentageFields) : HasPair(responseFile, PercentageFields[k][2])}
    IN  [name \in {PercentageFields[k][1] : k \in present} |->
            LET k == CHOOSE k \in present : PercentageFields[k][1] = name
            IN  RoundedPercentage(responseFile[PercentageFields[k][2]][1])]

\* Faulty variant: only the path of a file is checked.
PercentagesFileInvalidPathOnly(f) ==
    \/ "path" \notin DOMAIN f
    \/ f.path = ""

\* !responseFile.path || !responseFile.absolute_coverage
PercentagesFileInvalid(f) ==
    \/ "path" \notin DOMAIN f
    \/ f.path = ""
    \/ ~HasPair(f, "absolute_coverage")

RECURSIVE ConvertPercentagesFiles(_, _, _)
ConvertPercentagesFiles(files, i, coveragePercentages) ==
    IF i > Len(files) THEN [ok |-> TRUE, value |-> coveragePercentages]
    ELSE LET responseFile == files[i] IN
         IF PercentagesFileInvalid(responseFile)
         THEN [ok |-> FALSE,
               error |-> "Invalid coverage percentages response format. Expecting path and absolute_coverage properties"]
         ELSE ConvertPercentagesFiles(files, i + 1,
                                      ObjSet(coveragePercentages, responseFile.path,
                                             FileCov(responseFile)))

convertResponseJsonToCoveragePercentages(responseJson) ==
    IF responseJson = Null
    THEN [ok |-> FALSE, error |-> "TypeError: Cannot read properties of null"]
    ELSE IF "data" \notin DOMAIN responseJson
    THEN [ok |-> FALSE, error |-> "Invalid coverage percentages response format. Expecting data property"]
    ELSE IF "files" \notin DOMAIN responseJson.data
    THEN [ok |-> FALSE, error |-> "Invalid coverage percentages response format. Expecting files property"]
    ELSE ConvertPercentagesFiles(responseJson.data.files, 1, <<>>)

\* fetchCoveragePercentages: await fetchCoverageJsonData(changeInfo, 'percentages'), then convert.
fetchCoveragePercentages(changeInfo, net) ==
    LET responseJson == fetchCoverageJsonData(changeInfo, "percentages", net)
    IN  IF responseJson.ok
        THEN convertResponseJsonToCoveragePercentages(responseJson.value)
        ELSE responseJson

(***************************************************************************)
(* Bounds and inputs                                                       *)
(***************************************************************************)
\* How many times the cache entry may be replaced in one behaviour of Spec.
MaxReplacements == 2
\* How many times it may be replaced in one behaviour of SpecRefetch.
MaxRefetches == 3
\* How many accessor calls may be suspended at the same time.
MaxCalls == 1
\* How many config lookups may be started in one behaviour of SpecConfig.
MaxLookups == 2
\* showPercentageColumns calls suspended at a time, when only views are attached
MaxColumnCalls == 2
\* The longest line list of a file in a lines response converted on its own.
MaxLines == 3
\* The largest number of covered lines in a pair of a percentages response
\* converted on its own.
MaxCovered == 4
\* The most prefixes stacked in front of a host given to getNormalizedHost.
MaxPrefixes == 2

HostPlain == <<"h">>

ProjectA == <<"a">>
PathNameA == <<"/", "c", "/", "a", "/", "+", "/", "1">>
ProjectB == <<"b">>
PathNameB == <<"/", "c", "/", "b", "/", "+", "/", "2">>
PathNameBad == <<"/", "x">>
PathNameSlash == <<"/", "c", "/", "b", "/", "c", "/", "+", "/", "3">>
\* window.location at the time of a call: <<host, pathname>>. The change
\* page is open on the canary host; BadLocation is a page that is no change page.
ChangeLocation == <<CanaryPrefix \o HostPlain, PathNameA>>
BadLocation == <<HostPlain, PathNameBad>>

\* (changeNum, patchNum) arguments: two valid pairs, and invalid ones. Between
\* them NumberArgs, StringArgs and the arguments of prefetchCoverageRanges cover
\* every way of being invalid.
NumberArgs ==
    { <<Num(1), Num(1)>>, <<Num(1), Num(2)>>, <<Num(1), Undefined>> }

\* The arguments of mayBeShowLowCoverageWarning.
WarningArgs ==
    { <<Num(1), Num(1)>>, <<Num(1), Num(2)>>, <<Num(0), Num(1)>> }

\* The strings provideCoveragePercentages receives.
StringArgs ==
    { <<"1", "1">>, <<"1", "2">>, <<"1", "-1">> }

\* Number(s) for the strings of StringArgs; a string that is no numeral gives NaN.
Number(s) ==
    CASE s = "1" -> Num(1)
      [] s = "2" -> Num(2)
      [] s = "0" -> Num(0)
      [] s = "-1" -> Num(-1)
      [] OTHER -> NaN

\* revision._number: a number, or a string such as 'edit'.
RevisionNumbers == {[type |-> "number", n |-> 1], [type |-> "number", n |-> 2],
                    [type |-> "number", n |-> 0], [type |-> "string", n |-> 0]}

\* change._number
ChangeNumbers == {Num(1), NaN}

\* File paths the accessors ask for: one the service reports, one it does not.
FilePaths == {"a.cc", "none.cc"}

\* The keys, kinds and network outcomes fetchCoverageJsonData is called with on its own.
ProjectSlash == <<"b", "/", "c">>

FetchHosts ==
    {ChromiumReviewHost, LibassistantCorpHost, LibassistantHost, HostPlain,
     CanaryPrefix \o LibassistantHost, ObjectPrototype[1][1]}

FetchKeys ==
    {[host |-> host, project |-> project, changeNum |-> Num(1), patchNum |-> patchNum] :
        host \in FetchHosts, project \in {ProjectA, ProjectSlash},
        patchNum \in {Num(1), Num(2), Undefined}}

FetchKinds == {"lines", "percentages", "files"}

HttpStatuses == {200, 204, 299, 300, 400, 404, 500, 503}

JsonBodies ==
    { <<>>,
      [data |-> [files |-> <<>>]],
      [is_project_supported |-> FALSE],
      [is_project_supported |-> TRUE],
      [is_service_enabled |-> FALSE],
      [is_service_enabled |-> TRUE],
      [is_project_supported |-> FALSE, is_service_enabled |-> FALSE] }

FetchNets ==
    {HttpResponse(status, body) : status \in HttpStatuses, body \in JsonBodies}
    \cup {NullResponse(status) : status \in HttpStatuses}
    \cup {UnparsableResponse(status) : status \in HttpStatuses}
    \cup {NetworkError}

\* The line entries of a lines response converted on its own: lines 1, 2, 3
\* and 5 not covered or covered, and entries with line 0, without a line, with
\* count null and without a count.
LineEntries ==
    {[line |-> Num(l), count |-> Num(c)] : l \in {1, 2, 3, 5}, c \in {0, 2}}
    \cup {[line |-> Num(0), count |-> Num(2)],
          [count |-> Num(2)],
          [line |-> Num(2), count |-> Null],
          [line |-> Num(2)]}

LineLists == UNION {[1..n -> LineEntries] : n \in 0..MaxLines}

\* The lines responses around a line list: the file alone, the file followed
\* or preceded by another file, and files without a path, with an empty path,
\* without a line list and with an empty one.
LinesResponses(lines) ==
    LET other == [path |-> "b.cc", lines |-> <<[line |-> Num(7), count |-> Num(1)]>>]
        Response(files) == [data |-> [files |-> files]]
    IN  {Response(<< [path |-> "a.cc", lines |-> lines] >>),
         Response(<< [path |-> "a.cc", lines |-> lines], other >>),
         Response(<< other, [path |-> "a.cc", lines |-> lines] >>),
         Response(<< [path |-> "a.cc", lines |-> lines], [path |-> "b.cc", lines |-> <<>>] >>),
         Response(<< [path |-> "a.cc", lines |-> lines], [lines |-> lines] >>),
         Response(<< [path |-> "", lines |-> lines], other >>),
         Response(<< other, [path |-> "a.cc"] >>)}

\* The {covered, total} pairs of a percentages response converted on its own:
\* totals with whole, half-way and repeating quotients, and a total of 0.
CoverageTotals == {0, 1, 3, 4, 8, 10}

CoveragePairs ==
    {[covered |-> covered, total |-> total] :
        covered \in 0..MaxCovered, total \in CoverageTotals}

\* A pair property of a file: absent, null, or a pair.
PairOptions(pairs) ==
    {[has |-> FALSE, v |-> <<>>], [has |-> TRUE, v |-> <<>>]}
    \cup {[has |-> TRUE, v |-> <<pair>>] : pair \in pairs}

PairNames ==
    <<"absolute_coverage", "incremental_coverage",
      "absolute_unit_tests_coverage", "incremental_unit_tests_coverage">>

\* A file of a percentages response: path (absent when hasPath is false) and
\* the four pair properties as the options give them.
PercentagesFile(hasPath, path, options) ==
    LET names == (IF hasPath THEN {"path"} ELSE {})
                 \cup {PairNames[k] : k \in {k \in 1..4 : options[k].has}}
    IN  [name \in names |->
            IF name = "path" THEN path
            ELSE options[CHOOSE k \in 1..4 : PairNames[k] = name].v]

\* The test's sample file: 3 of 10 lines covered, 3 of 4 added lines.
SamplePercentagesFile ==
    [path |-> "b.cc",
     absolute_coverage |-> <<[covered |-> 3, total |-> 10]>>,
     incremental_coverage |-> <<[covered |-> 3, total |-> 4]>>]

\* The percentages responses: a file with every combination of its pairs,
\* alone; and, after the sample file, files without a path and with an empty
\* one.
PercentagesResponses ==
    LET Response(files) == [data |-> [files |-> files]]
        unitTests == PairOptions({[covered |-> 1, total |-> 8]})
        some == [has |-> TRUE, v |-> <<[covered |-> 1, total |-> 4]>>]
        none == [has |-> FALSE, v |-> <<>>]
    IN  {Response(<< PercentagesFile(TRUE, "a.cc", <<a, i, au, iu>>) >>) :
            a \in PairOptions(CoveragePairs), i \in PairOptions(CoveragePairs),
            au \in unitTests, iu \in unitTests}
        \cup {Response(<< SamplePercentagesFile,
                          PercentagesFile(hasPath, path, <<a, none, none, none>>) >>) :
                hasPath \in BOOLEAN, path \in {"a.cc", ""},
                a \in {some, none, [has |-> TRUE, v |-> <<>>]}}

\* Bodies without `data` and without `data.files`.
BodiesWithoutFiles == {<<>>, [data |-> <<>>]}

\* The hosts getNormalizedHost is called with on its own: up to MaxPrefixes
\* prefixes in front of a base; the bases are a plain host, the empty host, a
\* prefix without its dash, a prefix inside the host and an unlisted prefix.
HostBases ==
    {<<"h">>, <<>>, <<"c", "a", "n", "a", "r", "y">>, <<"x">> \o CanaryPrefix \o <<"h">>, <<"p", "o", "l", "y", "m", "e", "r", "3", "-", "h">>}

RECURSIVE StackedPrefixes(_)
StackedPrefixes(stack) ==
    IF stack = <<>> THEN <<>>
    ELSE HOST_PREFIXES[Head(stack)] \o StackedPrefixes(Tail(stack))

LocatorHosts ==
    {StackedPrefixes(stack) \o base :
        stack \in UNION {[1..n -> 1..Len(HOST_PREFIXES)] : n \in 0..MaxPrefixes},
        base \in HostBases}

\* The paths parseProjectFromPathName is called with on its own: a start, a
\* project, a delimiter and a rest, each present, absent or off.
LocatorPaths ==
    {start \o project \o delimiter \o rest :
        start \in {<<"/", "c", "/">>, <<"/", "x", "/">>, <<"/", "c">>, <<>>},
        project \in {<<"a">>, <<"b", "/", "c">>, <<>>},
        delimiter \in {<<"/", "+">>, <<"+">>, <<>>},
        rest \in {<<>>, <<"/", "1">>, <<"/", "1", "/", "2", "/", "f", ".", "c", "c">>, <<"/", "x", "/", "+", "/", "1">>}}

\* The arguments of prefetchCoverageRanges, with window.location.host, when the
\* user moves between changes of two hosts and two projects: <<host, change,
\* revision>>.
KeyArguments ==
    {<<host, [project |-> project, _number |-> number], revision>> :
        host \in {HostPlain, CanaryPrefix \o HostPlain, <<"g">>},
        project \in {ProjectA, ProjectB},
        number \in {Num(1), Num(2), NaN},
        revision \in RevisionNumbers}

\* The views the plugin attaches: a header view and a content view of the file list.
Views == {"absolute-header-view", "absolute-content-view"}

(***************************************************************************)
(* The coverage service (environment)                                      *)
(***************************************************************************)
\* The lines the service holds for a patchset: they differ from key to key.
ServiceLines(changeInfo) ==
    LET base == 10 * changeInfo.patchNum.v IN
    << [line |-> Num(base + 2), count |-> Num(0)],
       [line |-> Num(base), count |-> Num(changeInfo.changeNum.v)],
       [line |-> Num(base + 1), count |-> Num(0)] >>

ServiceLinesBody(changeInfo) ==
    [data |-> [files |-> << [path |-> "a.cc", lines |-> ServiceLines(changeInfo)] >>]]

\* The percentages the service holds for a patchset: a file below the bar, one
\* above it, one without added lines and one whose added lines are all uncovered.
ServicePercentagesBody(changeInfo) ==
    [data |-> [files |-> <<
        [path |-> "a.cc",
         absolute_coverage |-> <<[covered |-> 3 * changeInfo.patchNum.v, total |-> 10]>>,
         incremental_coverage |-> <<[covered |-> 2, total |-> 4]>>],
        [path |-> "b.cc",
         absolute_coverage |-> <<[covered |-> 9, total |-> 10]>>,
         incremental_coverage |-> <<[covered |-> 4, total |-> 5]>>],
        [path |-> "c.cc",
         absolute_coverage |-> <<[covered |-> 1, total |-> 2]>>,
         incremental_coverage |-> <<>>],
        [path |-> "d.cc",
         absolute_coverage |-> <<[covered |-> 1, total |-> 3]>>,
         incremental_coverage |-> <<[covered |-> 0, total |-> 4]>>] >>]]

\* Lines responses in which the file a.cc, with the lines the service holds,
\* is followed by a second file that is not as the format requires: it has no
\* line list, or a line entry whose count is null, or one without a count.
PartlyMalformedOutcomes == {"malformedFile", "malformedLine", "malformedCount"}

PartlyMalformedLinesBody(changeInfo, outcome) ==
    LET good == [path |-> "a.cc", lines |-> ServiceLines(changeInfo)]
        bad == CASE outcome = "malformedFile" -> [path |-> "b.cc"]
                 [] outcome = "malformedLine" ->
                      [path |-> "b.cc", lines |-> << [line |-> Num(1), count |-> Num(1)],
                                                     [line |-> Num(2), count |-> Null] >>]
                 [] OTHER ->
                      [path |-> "b.cc", lines |-> << [line |-> Num(1), count |-> Num(1)],
                                                     [line |-> Num(2)] >>]
    IN  [data |-> [files |-> <<good, bad>>]]

\* What the network may hand back for a request.
NetOutcomes == {"ok", "disabled", "malformed"}

NetResponse(changeInfo, kind, outcome) ==
    CASE outcome = "ok" ->
           HttpResponse(200, IF kind = "lines" THEN ServiceLinesBody(changeInfo)
                                               ELSE ServicePercentagesBody(changeInfo))
      [] outcome = "disabled" -> HttpResponse(500, [is_service_enabled |-> FALSE])
      [] outcome = "malformed" -> HttpResponse(200, [data |-> [files |-> << [path |-> "a.cc"] >>]])
      [] outcome \in PartlyMalformedOutcomes ->
           HttpResponse(200, IF kind = "lines" THEN PartlyMalformedLinesBody(changeInfo, outcome)
                                               ELSE ServicePercentagesBody(changeInfo))
      [] OTHER -> NetworkError

(***************************************************************************)
(* Coverage Cache / Coordinator                                            *)
(***************************************************************************)
CoverageChangeInfo(host, project, changeNum, patchNum) ==
    [host |-> host, project |-> project, changeNum |-> changeNum, patchNum |-> patchNum]

\* JSON.stringify(changeInfo): the properties in order; an undefined property
\* is left out and NaN and the infinities are written as null.
JSONStringify(changeInfo) ==
    LET num(x) == IF x.t \in {"nan", "inf"} THEN Null ELSE x
    IN  << <<"host", changeInfo.host>>, <<"project", changeInfo.project>> >>
        \o (IF changeInfo.changeNum = Undefined THEN <<>>
            ELSE << <<"changeNum", num(changeInfo.changeNum)>> >>)
        \o (IF changeInfo.patchNum = Undefined THEN <<>>
            ELSE << <<"patchNum", num(changeInfo.patchNum)>> >>)

\* Faulty variant: the early return without its two sign checks.
ValidChangeInfoNoSignCheck(changeInfo) ==
    ~ \/ changeInfo.patchNum = Undefined
      \/ isNaN(changeInfo.changeNum)
      \/ isNaN(changeInfo.patchNum)

\* The guard of updateCoverageDataIfNecessary's early return, negated.
ValidChangeInfo(changeInfo) ==
    ~ \/ changeInfo.patchNum = Undefined
      \/ isNaN(changeInfo.changeNum)
      \/ isNaN(changeInfo.patchNum)
      \/ LeqZero(changeInfo.changeNum)
      \/ LeqZero(changeInfo.patchNum)

\* Faulty variant: the entry is taken to be stale on every call.
NeedsReplacementAlways(changeInfo) == TRUE

\* Faulty variant: an entry whose lines fetch failed is replaced as well.
NeedsReplacementRetrying(changeInfo) ==
    \/ coverageData = <<>>
    \/ JSONStringify(changeInfo) # JSONStringify(coverageData[1].changeInfo)
    \/ promises[coverageData[1].rangesPromise].state = "rejected"

\* Faulty variant: only the two numbers of the key are compared.
NeedsReplacementNumbersOnly(changeInfo) ==
    \/ coverageData = <<>>
    \/ changeInfo.changeNum # coverageData[1].changeInfo.changeNum
    \/ changeInfo.patchNum # coverageData[1].changeInfo.patchNum

\* The second condition: no entry, or an entry for another key.
NeedsReplacement(changeInfo) ==
    \/ coverageData = <<>>
    \/ JSONStringify(changeInfo) # JSONStringify(coverageData[1].changeInfo)

\* The promise an async fetch function returns: pending, no rejection handler
\* attached (handled), nothing logged for it (warned).
NewPromise(kind, changeInfo) ==
    [kind |-> kind, changeInfo |-> changeInfo, state |-> "pending", net |-> "",
     handled |-> FALSE, warned |-> FALSE]

\* Faulty variant: the promise is stored as the fetch function returned it.
CatchNotAttached(promise) == promise

\* promise.catch(error => { console.warn(error); })
Catch(promise) == [promise EXCEPT !.handled = TRUE]

\* What the async function behind a promise comes to, given the network outcome.
FetchResult(kind, changeInfo, outcome) ==
    IF kind = "lines"
    THEN fetchCoverageRanges(changeInfo, NetResponse(changeInfo, kind, outcome))
    ELSE fetchCoveragePercentages(changeInfo, NetResponse(changeInfo, kind, outcome))

\* The value a fulfilled promise was fulfilled with.
PromiseValue(promise) == FetchResult(promise.kind, promise.changeInfo, promise.net).value

\* Faulty variant: an existing entry is updated field by field: it gets the new key
\* and keeps its promises.
updateKeepingPromises(changeInfo) ==
    IF ValidChangeInfo(changeInfo) /\ NeedsReplacement(changeInfo)
    THEN IF coverageData = <<>>
         THEN /\ promises' = promises \o << Catch(NewPromise("lines", changeInfo)),
                                            Catch(NewPromise("percentages", changeInfo)) >>
              /\ coverageData' = << [changeInfo |-> changeInfo,
                                     rangesPromise |-> Len(promises) + 1,
                                     percentagesPromise |-> Len(promises) + 2] >>
         ELSE /\ promises' = promises
              /\ coverageData' = << [coverageData[1] EXCEPT !.changeInfo = changeInfo] >>
    ELSE UNCHANGED <<coverageData, promises>>

\* Faulty variant: the entry is replaced on every call with a valid key.
updateWithoutKeyCheck(changeInfo) ==
    IF ValidChangeInfo(changeInfo)
    THEN /\ promises' = promises \o << Catch(NewPromise("lines", changeInfo)),
                                       Catch(NewPromise("percentages", changeInfo)) >>
         /\ coverageData' = << [changeInfo |-> changeInfo,
                                rangesPromise |-> Len(promises) + 1,
                                percentagesPromise |-> Len(promises) + 2] >>
    ELSE UNCHANGED <<coverageData, promises>>

\* updateCoverageDataIfNecessary(changeInfo): the entry is replaced as a whole
\* by one whose two promises are the fetches started for changeInfo.
updateCoverageDataIfNecessary(changeInfo) ==
    IF ValidChangeInfo(changeInfo) /\ NeedsReplacement(changeInfo)
    THEN /\ promises' = promises \o << Catch(NewPromise("lines", changeInfo)),
                                       Catch(NewPromise("percentages", changeInfo)) >>
         /\ coverageData' = << [changeInfo |-> changeInfo,
                                rangesPromise |-> Len(promises) + 1,
                                percentagesPromise |-> Len(promises) + 2] >>
    ELSE UNCHANGED <<coverageData, promises>>

(***************************************************************************)
(* Accessors: what a call returns once the awaited promise has settled     *)
(***************************************************************************)
Resolved(op, changeInfo, path, promise, value) ==
    << [op |-> op, outcome |-> "resolved", changeInfo |-> changeInfo,
        path |-> path, promise |-> promise, value |-> value] >>

\* A call that threw before its try block: the async function's promise rejects.
Rejected(op, error) ==
    << [op |-> op, outcome |-> "rejected", value |-> [t |-> "error", v |-> error]] >>

UndefinedValue == [t |-> "undefined", v |-> <<>>]
NullValue == [t |-> "null", v |-> <<>>]

\* Faulty variant: a failed fetch is answered like a file without coverage.
provideCoverageRangesEmptyOnFailure(promise, path) ==
    IF promise.state = "fulfilled"
    THEN LET coverageRanges == PromiseValue(promise)
         IN  [t |-> "array",
              v |-> IF ObjHas(coverageRanges, path) THEN ObjGet(coverageRanges, path) ELSE <<>>]
    ELSE [t |-> "array", v |-> <<>>]

\* provideCoverageRanges after `await this.coverageData.rangesPromise`:
\* coverageRanges[path] || [] on success, undefined in the catch block.
provideCoverageRangesResult(promise, path) ==
    IF promise.state = "fulfilled"
    THEN LET coverageRanges == PromiseValue(promise)
         IN  [t |-> "array",
              v |-> IF ObjHas(coverageRanges, path) THEN ObjGet(coverageRanges, path) ELSE <<>>]
    ELSE UndefinedValue

\* Faulty variant: a path without entry is answered with null, like a failure.
provideCoveragePercentagesNullForMissing(promise, path) ==
    IF promise.state = "fulfilled"
    THEN LET coveragePercentages == PromiseValue(promise)
         IN  IF ObjHas(coveragePercentages, path)
             THEN [t |-> "object", v |-> ObjGet(coveragePercentages, path)]
             ELSE NullValue
    ELSE NullValue

\* provideCoveragePercentages after `await this.coverageData.percentagesPromise`:
\* coveragePercentages[path] on success (undefined for a path without entry),
\* null in the catch block.
provideCoveragePercentagesResult(promise, path) ==
    IF promise.state = "fulfilled"
    THEN LET coveragePercentages == PromiseValue(promise)
         IN  IF ObjHas(coveragePercentages, path)
             THEN [t |-> "object", v |-> ObjGet(coveragePercentages, path)]
             ELSE UndefinedValue
    ELSE NullValue

\* coveragePercentages[file].incremental
IncrementalOf(fileCov) ==
    IF "incremental" \in DOMAIN fileCov THEN fileCov.incremental ELSE Undefined

\* incremental && incremental < LOW_COVERAGE_WARNING_BAR
IsLowCoverage(incremental) ==
    TruthyNum(incremental) /\ LessThanInt(incremental, LOW_COVERAGE_WARNING_BAR)

\* The loop over Object.keys(coveragePercentages) from index i on.
RECURSIVE LowCoverageWarnings(_, _)
LowCoverageWarnings(coveragePercentages, i) ==
    IF i > Len(coveragePercentages) THEN <<>>
    ELSE LET file == coveragePercentages[i][1]
             incremental == IncrementalOf(coveragePercentages[i][2])
         IN  (IF IsLowCoverage(incremental)
              THEN << [category |-> "WARNING",
                       summary |-> "Incremental coverage < bar",
                       file |-> file,
                       incremental |-> incremental] >>
              ELSE <<>>)
             \o LowCoverageWarnings(coveragePercentages, i + 1)

EmptyFetchResponse == [responseCode |-> "OK", runs |-> <<>>]

\* Faulty variant: a failed fetch is reported as an error response.
mayBeShowLowCoverageWarningErrorOnFailure(promise) ==
    IF promise.state = "fulfilled"
    THEN [t |-> "response",
          v |-> [responseCode |-> "OK",
                 runs |-> << [checkName |-> "Low Coverage Check",
                              status |-> "COMPLETED",
                              results |-> LowCoverageWarnings(PromiseValue(promise), 1)] >>]]
    ELSE [t |-> "response", v |-> [responseCode |-> "ERROR", runs |-> <<>>]]

\* mayBeShowLowCoverageWarning after `await this.coverageData.percentagesPromise`.
mayBeShowLowCoverageWarningResult(promise) ==
    IF promise.state = "fulfilled"
    THEN [t |-> "response",
          v |-> [responseCode |-> "OK",
                 runs |-> << [checkName |-> "Low Coverage Check",
                              status |-> "COMPLETED",
                              results |-> LowCoverageWarnings(PromiseValue(promise), 1)] >>]]
    ELSE [t |-> "response", v |-> EmptyFetchResponse]

(***************************************************************************)
(* Config Cache                                                            *)
(***************************************************************************)
\* The endpoint of the README's example for local development.
LocalEndpoint == "http://localhost:8080/static/test-code-coverage.json"

\* The code-coverage section of a project's project.config: each setting
\* present or absent.
EnabledSection == [enabled |-> TRUE]
DisabledSection == [enabled |-> FALSE]
EndpointSection == [endpoint |-> LocalEndpoint]
EnabledEndpointSection == [enabled |-> TRUE, endpoint |-> LocalEndpoint]
NoSection == <<>>

\* GetConfig.apply: getBoolean("enabled", false), getString("endpoint", "").
GetConfig(section) ==
    [enabled |-> IF "enabled" \in DOMAIN section THEN section.enabled ELSE FALSE,
     endpoint |-> IF "endpoint" \in DOMAIN section THEN section.endpoint ELSE ""]

\* What the REST GET of /projects/{project}/{plugin}~config may come to: the
\* server's GetConfig answers for the project's section, or the request fails.
ConfigOutcomes == {"enabled", "disabled", "unset", "endpoint", "failed"}

\* The section behind an answered lookup.
SectionOf(outcome) ==
    CASE outcome = "enabled" -> EnabledSection
      [] outcome = "disabled" -> DisabledSection
      [] outcome = "endpoint" -> EndpointSection
      [] OTHER -> NoSection

\* The project.config of the projects: 'a' serves its coverage data from the
\* local endpoint and shows the columns, 'b' and 'b/c' have no section.
ProjectConfig(project) ==
    IF project = ProjectA THEN EnabledEndpointSection ELSE NoSection

\* Faulty variant: the promise is read from this.coverageConfig again after
\* the await.
showPercentageColumnsResultOfEntry(configPromise) ==
    IF configPromises[coverageConfig[1].configPromise].state = "fulfilled"
    THEN [t |-> "boolean", v |-> configPromises[coverageConfig[1].configPromise].value.enabled]
    ELSE [t |-> "boolean", v |-> FALSE]

\* Faulty variant: a failed lookup shows the columns.
showPercentageColumnsResultFailOpen(configPromise) ==
    IF configPromise.state = "fulfilled"
    THEN [t |-> "boolean", v |-> configPromise.value.enabled]
    ELSE [t |-> "boolean", v |-> TRUE]

\* showPercentageColumns after `await this.coverageConfig.configPromise`:
\* config !== null && config.enabled, or false in the catch block.
showPercentageColumnsResult(configPromise) ==
    IF configPromise.state = "fulfilled"
    THEN [t |-> "boolean", v |-> configPromise.value.enabled]
    ELSE [t |-> "boolean", v |-> FALSE]

(***************************************************************************)
(* Percentage Views                                                        *)
(***************************************************************************)
\* The kind each of the four content views sets in its constructor.
ContentViewKinds == {"absolute", "incremental", "absolute_unit_tests", "incremental_unit_tests"}

\* A content view as constructed: changeNum = '', patchRange = null (<<>>),
\* path = '', percentageText = '-'.
NewContentView(kind) ==
    [kind |-> kind, changeNum |-> "", patchRange |-> <<>>, path |-> "",
     percentageText |-> <<"-">>]

\* The decimal digits of a natural number.
RECURSIVE DecimalDigits(_)
DecimalDigits(n) ==
    LET digit == <<"0", "1", "2", "3", "4", "5", "6", "7", "8", "9">>[(n % 10) + 1]
    IN  IF n < 10 THEN <<digit>> ELSE Append(DecimalDigits(n \div 10), digit)

\* Number.prototype.toString of a percentage.
PercentageToString(x) ==
    CASE x.t = "num" /\ x.v >= 0 -> DecimalDigits(x.v)
      [] x.t = "num" /\ x.v < 0 -> <<"-">> \o DecimalDigits(-x.v)
      [] x.t = "inf" /\ x.v > 0 -> <<"I", "n", "f", "i", "n", "i", "t", "y">>
      [] x.t = "inf" /\ x.v < 0 -> <<"-", "I", "n", "f", "i", "n", "i", "t", "y">>
      [] OTHER -> <<"N", "a", "N">>

\* getPercentageFromData of the view of the kind: pd.absolute, pd.incremental,
\* pd.absolute_unit_tests or pd.incremental_unit_tests; undefined when absent.
getPercentageFromData(kind, pd) ==
    IF kind \in DOMAIN pd THEN pd[kind] ELSE Undefined

\* computePercentage after `await provider(...)`:
\* p && this.getPercentageFromData(p) ? that.toString() + '%' : '-'
PercentageText(kind, p) ==
    IF p.t = "object" /\ TruthyNum(getPercentageFromData(kind, p.v))
    THEN PercentageToString(getPercentageFromData(kind, p.v)) \o <<"%">>
    ELSE <<"-">>

\* What the provider, provideCoveragePercentages, resolves to for the
\* arguments of a call: the PercentageData of the file in the patchset,
\* undefined for a file without data, null after a failure.
ProviderResult(call) ==
    CASE call.path = "a.cc" /\ call.patchNum = "1" ->
           [t |-> "object", v |-> [absolute |-> Num(30), incremental |-> Num(75),
                                   absolute_unit_tests |-> Num(0),
                                   incremental_unit_tests |-> Num(100)]]
      [] call.path = "a.cc" /\ call.patchNum = "2" ->
           [t |-> "object", v |-> [absolute |-> Num(60)]]
      [] call.path = "b.cc" /\ call.patchNum = "1" ->
           [t |-> "object", v |-> [absolute |-> Num(0), incremental |-> Num(5)]]
      [] call.path = "b.cc" /\ call.patchNum = "2" -> NullValue
      [] OTHER -> UndefinedValue

\* update(changedProperties) after changeNum, patchRange or path were set:
\* computePercentage runs with the view's properties. With one of them unset
\* the text becomes '-' at once; otherwise the call suspends at the provider.
UpdateView(changeNum, patchRange, path) ==
    /\ <<changeNum, patchRange, path>> # <<contentView.changeNum, contentView.patchRange, contentView.path>>
    /\ IF changeNum = "" \/ patchRange = <<>> \/ path = ""
       THEN /\ contentView' = [contentView EXCEPT !.changeNum = changeNum, !.patchRange = patchRange,
                                     !.path = path, !.percentageText = <<"-">>]
            /\ providerCalls' = providerCalls
       ELSE /\ contentView' = [contentView EXCEPT !.changeNum = changeNum, !.patchRange = patchRange,
                                     !.path = path]
            /\ providerCalls' = providerCalls \cup
                   {[changeNum |-> changeNum, path |-> path,
                     patchNum |-> patchRange[1].patchNum]}
    /\ UNCHANGED <<dataVars, returned, configVars, input, output>>

\* The provider's promise of a suspended computePercentage call settles and
\* the call sets the view's percentageText.
ProviderSettles(call) ==
    /\ call \in providerCalls
    /\ providerCalls' = providerCalls \ {call}
    /\ contentView' = [contentView EXCEPT !.percentageText = PercentageText(contentView.kind, ProviderResult(call))]
    /\ UNCHANGED <<dataVars, returned, configVars, input, output>>

(***************************************************************************)
(* Actions                                                                 *)
(***************************************************************************)
Call(op, changeInfo, path, promise) ==
    [op |-> op, changeInfo |-> changeInfo, path |-> path, promise |-> promise]

\* The synchronous part of an accessor, up to its await: the entry is brought
\* up to date and the promise to await is read from it. Without an entry the
\* call returns noData at once.
StartAccessor(op, changeInfo, path, noData) ==
    /\ updateCoverageDataIfNecessary(changeInfo)
    /\ IF coverageData' # <<>>
       THEN LET promise == IF op = "provideCoverageRanges"
                           THEN coverageData'[1].rangesPromise
                           ELSE coverageData'[1].percentagesPromise
            IN  /\ calls' = calls \cup {Call(op, changeInfo, path, promise)}
                /\ returned' = <<>>
       ELSE /\ calls' = calls
            /\ returned' = Resolved(op, changeInfo, path, 0, noData)
    /\ UNCHANGED <<configVars, callVars>>

\* A call whose project cannot be parsed throws before anything else happens.
ThrowFromAccessor(op, error) ==
    /\ returned' = Rejected(op, error)
    /\ UNCHANGED <<dataVars, configVars, callVars>>

ProvideCoverageRanges(host, pathName, changeNum, path, patchNum) ==
    \E project \in {parseProjectFromPathName(pathName)} :
        IF project.ok
        THEN \E changeInfo \in {CoverageChangeInfo(getNormalizedHost(host), project.value,
                                                    changeNum, patchNum)} :
                StartAccessor("provideCoverageRanges", changeInfo, path, UndefinedValue)
        ELSE ThrowFromAccessor("provideCoverageRanges", project.error)

ProvideCoveragePercentages(host, pathName, changeNum, path, patchNum) ==
    \E project \in {parseProjectFromPathName(pathName)} :
        IF project.ok
        THEN \E changeInfo \in {CoverageChangeInfo(getNormalizedHost(host), project.value,
                                                    Number(changeNum), Number(patchNum))} :
                StartAccessor("provideCoveragePercentages", changeInfo, path, NullValue)
        ELSE ThrowFromAccessor("provideCoveragePercentages", project.error)

MayBeShowLowCoverageWarning(host, pathName, changeNum, patchNum) ==
    \E project \in {parseProjectFromPathName(pathName)} :
        IF project.ok
        THEN \E changeInfo \in {CoverageChangeInfo(getNormalizedHost(host), project.value,
                                                    changeNum, patchNum)} :
                StartAccessor("mayBeShowLowCoverageWarning", changeInfo, "",
                              [t |-> "response", v |-> EmptyFetchResponse])
        ELSE ThrowFromAccessor("mayBeShowLowCoverageWarning", project.error)

\* prefetchCoverageRanges(change, revision): no await, nothing returned.
PrefetchCoverageRanges(host, change, revision) ==
    LET patchNum == IF revision.type = "number" THEN Num(revision.n) ELSE NaN
    IN  \E changeInfo \in {CoverageChangeInfo(getNormalizedHost(host), change.project,
                                                change._number, patchNum)} :
            /\ updateCoverageDataIfNecessary(changeInfo)
            /\ returned' = <<>>
            /\ UNCHANGED <<calls, configVars, callVars>>

\* The network outcome of the request behind promise p arrives: the rest of
\* fetchCoverageRanges / fetchCoveragePercentages runs and settles p. The
\* reason of a rejection is only ever logged (console.warn, console.info), so
\* the promise keeps none; the handler attached with catch logs it.
SettleFetch(p, outcome) ==
    /\ promises[p].state = "pending"
    /\ LET result == FetchResult(promises[p].kind, promises[p].changeInfo, outcome)
       IN  promises' = [promises EXCEPT ![p] =
                           [@ EXCEPT !.state = IF result.ok THEN "fulfilled" ELSE "rejected",
                                     !.net = IF result.ok THEN outcome ELSE "",
                                     !.warned = ~result.ok /\ promises[p].handled]]
    /\ returned' = <<>>
    /\ UNCHANGED <<coverageData, calls, configVars, callVars>>

\* Faulty variant: the promise is read from this.coverageData again after the await.
AccessorResultRereading(c) ==
    CASE c.op = "provideCoverageRanges" ->
           provideCoverageRangesResult(promises[coverageData[1].rangesPromise], c.path)
      [] c.op = "provideCoveragePercentages" ->
           provideCoveragePercentagesResult(promises[coverageData[1].percentagesPromise], c.path)
      [] OTHER -> mayBeShowLowCoverageWarningResult(promises[coverageData[1].percentagesPromise])

\* What a resumed accessor returns.
AccessorResult(c) ==
    CASE c.op = "provideCoverageRanges" ->
           provideCoverageRangesResult(promises[c.promise], c.path)
      [] c.op = "provideCoveragePercentages" ->
           provideCoveragePercentagesResult(promises[c.promise], c.path)
      [] OTHER -> mayBeShowLowCoverageWarningResult(promises[c.promise])

\* Faulty variant: the continuation runs only while the awaited promise is
\* still a promise of the entry.
AwaitSettledOfEntryOnly(c) ==
    /\ promises[c.promise].state # "pending"
    /\ c.promise \in {coverageData[1].rangesPromise, coverageData[1].percentagesPromise}

\* `await promise`: the continuation of the call is queued once the promise
\* the call read from the entry has settled, whatever the entry is by then.
AwaitSettled(c) == promises[c.promise].state # "pending"

\* A suspended accessor resumes once the promise it awaits has settled.
ResumeAccessor(c) ==
    /\ AwaitSettled(c)
    /\ calls' = calls \ {c}
    /\ returned' = Resolved(c.op, c.changeInfo, c.path, c.promise, AccessorResult(c))
    /\ UNCHANGED <<coverageData, promises, configVars, callVars>>

\* plugin.getPluginName().
PluginName == <<"c", "h", "r", "o", "m", "i", "u", "m", "-", "c", "o", "v", "e", "r", "a", "g", "e">>

\* encodeURIComponent: of the characters projects and plugin names are made of
\* here only "/" is escaped.
RECURSIVE encodeURIComponent(_)
encodeURIComponent(str) ==
    IF str = <<>> THEN <<>>
    ELSE (IF str[1] = "/" THEN <<"%", "2", "F">> ELSE <<str[1]>>)
         \o encodeURIComponent(Tail(str))

\* The path of the config REST GET.
ConfigUrl(project) ==
    <<"/", "p", "r", "o", "j", "e", "c", "t", "s", "/">> \o encodeURIComponent(project) \o <<"/">>
    \o encodeURIComponent(PluginName) \o <<"~", "c", "o", "n", "f", "i", "g">>

\* Faulty variant: a failed lookup is tried again by the next call.
NeedsLookupRetrying(project) ==
    \/ coverageConfig = <<>>
    \/ project # coverageConfig[1].project
    \/ configPromises[coverageConfig[1].configPromise].state = "rejected"

\* !this.coverageConfig || project !== this.coverageConfig.project
NeedsLookup(project) ==
    \/ coverageConfig = <<>>
    \/ project # coverageConfig[1].project

\* onAttached(view): showPercentageColumns up to its await: the config entry
\* is replaced when there is none or when it is the entry of another project.
ShowPercentageColumns(view, pathName) ==
    \E project \in {parseProjectFromPathName(pathName)} :
        IF project.ok
        THEN /\ IF NeedsLookup(project.value)
                THEN /\ configPromises' = Append(configPromises,
                            [project |-> project.value, url |-> ConfigUrl(project.value),
                             state |-> "pending",
                             value |-> [enabled |-> FALSE], answer |-> ""])
                     /\ coverageConfig' = << [project |-> project.value,
                                              configPromise |-> Len(configPromises) + 1] >>
                ELSE UNCHANGED <<coverageConfig, configPromises>>
             /\ columnCalls' = columnCalls \cup
                    {[view |-> view, project |-> project.value,
                      promise |-> coverageConfig'[1].configPromise]}
             /\ returned' = <<>>
             /\ UNCHANGED <<dataVars, shown, callVars>>
        ELSE ThrowFromAccessor("showPercentageColumns", project.error)

\* The REST GET behind config promise p comes back.
SettleConfig(p, outcome) ==
    /\ configPromises[p].state = "pending"
    /\ configPromises' = [configPromises EXCEPT ![p] =
           [@ EXCEPT !.state = IF outcome = "failed" THEN "rejected" ELSE "fulfilled",
                     !.answer = outcome,
                     !.value = IF outcome = "failed" THEN @
                               ELSE GetConfig(SectionOf(outcome))]]
    /\ returned' = <<>>
    /\ UNCHANGED <<dataVars, coverageConfig, columnCalls, shown, callVars>>

\* A suspended showPercentageColumns resumes once its config promise has
\* settled, and the then-callback of onAttached sets the view's shown property.
ResumeColumns(c) ==
    /\ configPromises[c.promise].state # "pending"
    /\ columnCalls' = columnCalls \ {c}
    /\ returned' = << [op |-> "showPercentageColumns", outcome |-> "resolved",
                       project |-> c.project, promise |-> c.promise,
                       view |-> c.view,
                       value |-> showPercentageColumnsResult(configPromises[c.promise])] >>
    /\ shown' = [shown EXCEPT ![c.view] = showPercentageColumnsResult(configPromises[c.promise]).v]
    /\ UNCHANGED <<dataVars, coverageConfig, configPromises, callVars>>

\* fetchCoverageJsonData called on its own: the GETs it issues and what it
\* comes to once the network outcome is in.
FetchCoverageJsonData ==
    /\ input # <<>> /\ output = <<>>
    /\ input[1].fn = "fetchCoverageJsonData"
    /\ output' = << [requests |-> RequestsIssued(input[1].changeInfo, input[1].kind),
                     result |-> fetchCoverageJsonData(input[1].changeInfo, input[1].kind,
                                                      input[1].net)] >>
    /\ UNCHANGED <<dataVars, returned, configVars, input, viewVars>>

\* getNormalizedHost called on its own.
GetNormalizedHost ==
    /\ input # <<>> /\ output = <<>>
    /\ input[1].fn = "getNormalizedHost"
    /\ output' = << [result |-> getNormalizedHost(input[1].host)] >>
    /\ UNCHANGED <<dataVars, returned, configVars, input, viewVars>>

\* parseProjectFromPathName called on its own.
ParseProjectFromPathName ==
    /\ input # <<>> /\ output = <<>>
    /\ input[1].fn = "parseProjectFromPathName"
    /\ output' = << [result |-> parseProjectFromPathName(input[1].pathName)] >>
    /\ UNCHANGED <<dataVars, returned, configVars, input, viewVars>>

\* convertResponseJsonToCoveragePercentages called on its own.
ConvertResponseJsonToCoveragePercentages ==
    /\ input # <<>> /\ output = <<>>
    /\ input[1].fn = "convertResponseJsonToCoveragePercentages"
    /\ output' = << [result |-> convertResponseJsonToCoveragePercentages(input[1].responseJson)] >>
    /\ UNCHANGED <<dataVars, returned, configVars, input, viewVars>>

\* convertResponseJsonToCoverageRanges called on its own.
ConvertResponseJsonToCoverageRanges ==
    /\ input # <<>> /\ output = <<>>
    /\ input[1].fn = "convertResponseJsonToCoverageRanges"
    /\ output' = << [result |-> convertResponseJsonToCoverageRanges(input[1].responseJson)] >>
    /\ UNCHANGED <<dataVars, returned, configVars, input, viewVars>>

\* The client after its constructor, no view attached yet.
InitClient ==
    /\ coverageData = <<>>
    /\ promises = <<>>
    /\ calls = {}
    /\ returned = <<>>
    /\ coverageConfig = <<>>
    /\ configPromises = <<>>
    /\ columnCalls = {}
    /\ shown = [view \in Views |-> FALSE]
    /\ contentView = NewContentView("absolute")
    /\ providerCalls = {}

Init ==
    /\ InitClient
    /\ input = <<>>
    /\ output = <<>>

\* The calls of the UI, for behaviours with at most maxReplacements
\* replacements of the cache entry and MaxCalls suspended calls.
RangesCalls(maxReplacements) ==
    /\ \/ \E args \in NumberArgs, path \in FilePaths :
            ProvideCoverageRanges(ChangeLocation[1], ChangeLocation[2], args[1], path, args[2])
       \/ ProvideCoverageRanges(BadLocation[1], BadLocation[2], Num(1), "a.cc", Num(1))
    /\ Len(promises') <= 2 * maxReplacements
    /\ Cardinality(calls') <= MaxCalls

PercentagesCalls(maxReplacements) ==
    /\ \/ \E args \in StringArgs, path \in FilePaths :
            ProvideCoveragePercentages(ChangeLocation[1], ChangeLocation[2], args[1], path, args[2])
       \/ ProvideCoveragePercentages(BadLocation[1], BadLocation[2], "1", "a.cc", "1")
    /\ Len(promises') <= 2 * maxReplacements
    /\ Cardinality(calls') <= MaxCalls

WarningCalls(maxReplacements) ==
    /\ \/ \E args \in WarningArgs :
            MayBeShowLowCoverageWarning(ChangeLocation[1], ChangeLocation[2], args[1], args[2])
       \/ MayBeShowLowCoverageWarning(BadLocation[1], BadLocation[2], Num(1), Num(1))
    /\ Len(promises') <= 2 * maxReplacements
    /\ Cardinality(calls') <= MaxCalls

PrefetchCalls(maxReplacements) ==
    /\ \E number \in ChangeNumbers, revision \in RevisionNumbers :
          PrefetchCoverageRanges(HostPlain, [project |-> ProjectA, _number |-> number], revision)
    /\ Len(promises') <= 2 * maxReplacements

Settlements ==
    \/ \E p \in 1..Len(promises), outcome \in NetOutcomes : SettleFetch(p, outcome)
    \/ \E c \in calls : ResumeAccessor(c)

\* The views of the file list being attached, with at most maxCalls of their
\* showPercentageColumns calls suspended.
ColumnCalls(views, pathNames, maxCalls) ==
    /\ \E view \in views, pathName \in pathNames :
          ShowPercentageColumns(view, pathName)
    /\ Len(configPromises') <= MaxLookups
    /\ Cardinality(columnCalls') <= maxCalls

ConfigSettlements(outcomes) ==
    \/ \E p \in 1..Len(configPromises), outcome \in outcomes : SettleConfig(p, outcome)
    \/ \E c \in columnCalls : ResumeColumns(c)

\* The coverage data cache under every call of the UI.
Next ==
    \/ RangesCalls(MaxReplacements)
    \/ PercentagesCalls(MaxReplacements)
    \/ WarningCalls(MaxReplacements)
    \/ PrefetchCalls(MaxReplacements)
    \/ Settlements

Spec == Init /\ [][Next]_vars

\* The three accessors called for patchset 1 of the open change while
\* showchange events move the cache between patchsets.
LiveCalls(maxReplacements) ==
    /\ \/ ProvideCoverageRanges(ChangeLocation[1], ChangeLocation[2], Num(1), "a.cc", Num(1))
       \/ ProvideCoveragePercentages(ChangeLocation[1], ChangeLocation[2], "1", "a.cc", "1")
       \/ MayBeShowLowCoverageWarning(ChangeLocation[1], ChangeLocation[2], Num(1), Num(1))
    /\ Len(promises') <= 2 * maxReplacements
    /\ Cardinality(calls') <= MaxCalls

NextLive ==
    \/ LiveCalls(MaxReplacements)
    \/ PrefetchCalls(MaxReplacements)
    \/ Settlements

\* The calls LiveCalls can leave suspended at their await: the lines fetch of
\* the r-th entry is promise 2r - 1, its percentages fetch promise 2r.
SuspendedCalls(maxReplacements) ==
    LET changeInfo == CoverageChangeInfo(getNormalizedHost(ChangeLocation[1]), ProjectA,
                                         Num(1), Num(1))
    IN  {Call("provideCoverageRanges", changeInfo, "a.cc", 2 * r - 1) :
            r \in 1..maxReplacements}
        \cup
        {Call("provideCoveragePercentages", changeInfo, "a.cc", 2 * r) :
            r \in 1..maxReplacements}
        \cup
        {Call("mayBeShowLowCoverageWarning", changeInfo, "", 2 * r) :
            r \in 1..maxReplacements}

\* Every started fetch settles at some time (the assumption made of the
\* transport), and the continuation of an await runs once its promise has
\* settled (the job queue of the event loop). Both steps disable themselves
\* for good, SettleFetch by leaving the promise settled and ResumeAccessor by
\* taking the call out of calls, so weak fairness of each, WF_vars(A), is
\* []<>~ENABLED <<A>>_vars, written here with the guards of the two actions.
Fairness ==
    /\ \A p \in 1..(2 * MaxReplacements) :
          []<>~(p \in 1..Len(promises) /\ promises[p].state = "pending")
    /\ \A c \in SuspendedCalls(MaxReplacements) :
          []<>~(c \in calls /\ AwaitSettled(c))

SpecLive == Init /\ [][NextLive]_vars /\ Fairness

\* The ranges accessor under a service whose lines responses may have a
\* second file that is not as the format requires.
MalformedSettlements ==
    \/ \E p \in 1..Len(promises), outcome \in {"ok"} \cup PartlyMalformedOutcomes :
          SettleFetch(p, outcome)
    \/ \E c \in calls : ResumeAccessor(c)

NextMalformed ==
    \/ RangesCalls(MaxReplacements)
    \/ MalformedSettlements

SpecMalformed == Init /\ [][NextMalformed]_vars

\* A content view of each kind whose properties the file list sets, with the
\* provider answering its calls in any order.
InitViews ==
    /\ coverageData = <<>>
    /\ promises = <<>>
    /\ calls = {}
    /\ returned = <<>>
    /\ coverageConfig = <<>>
    /\ configPromises = <<>>
    /\ columnCalls = {}
    /\ shown = [view \in Views |-> FALSE]
    /\ contentView \in {NewContentView(kind) : kind \in ContentViewKinds}
    /\ providerCalls = {}
    /\ input = <<>>
    /\ output = <<>>

ViewProperties ==
    {<<changeNum, patchRange, path>> :
        changeNum \in {"", "1"},
        patchRange \in {<<>>, <<[patchNum |-> "1"]>>, <<[patchNum |-> "2"]>>},
        path \in {"", "a.cc", "b.cc"}}

NextViews ==
    \/ \E properties \in ViewProperties :
          UpdateView(properties[1], properties[2], properties[3])
    \/ \E call \in providerCalls : ProviderSettles(call)

SpecViews == InitViews /\ [][NextViews]_vars

\* The cache filled by showchange events alone: no accessor awaits a promise.
FetchSettlements ==
    \E p \in 1..Len(promises), outcome \in NetOutcomes : SettleFetch(p, outcome)

NextBackground ==
    \/ PrefetchCalls(MaxReplacements)
    \/ FetchSettlements

SpecBackground == Init /\ [][NextBackground]_vars

\* The diff view asking for the ranges of the patchset the entry is for, after
\* a showchange event made the entry.
PrefetchedRangesCalls(maxReplacements) ==
    /\ coverageData # <<>>
    /\ \E path \in FilePaths :
          ProvideCoverageRanges(ChangeLocation[1], ChangeLocation[2],
                                coverageData[1].changeInfo.changeNum, path,
                                coverageData[1].changeInfo.patchNum)
    /\ Len(promises') <= 2 * maxReplacements
    /\ Cardinality(calls') <= MaxCalls

\* The cache filled by showchange events and read by the diff view.
NextPrefetched ==
    \/ PrefetchCalls(MaxReplacements)
    \/ PrefetchedRangesCalls(MaxReplacements)
    \/ Settlements

SpecPrefetched == Init /\ [][NextPrefetched]_vars

\* The cache under showchange events of changes that differ in every part of
\* the key.
KeyCalls(maxReplacements) ==
    /\ \E arguments \in KeyArguments :
          PrefetchCoverageRanges(arguments[1], arguments[2], arguments[3])
    /\ Len(promises') <= 2 * maxReplacements

NextKeys == KeyCalls(MaxReplacements)

SpecKeys == Init /\ [][NextKeys]_vars

\* The cache moving between keys more often, under prefetches and the ranges accessor.
NextRefetch ==
    \/ RangesCalls(MaxRefetches)
    \/ PrefetchCalls(MaxRefetches)
    \/ Settlements

SpecRefetch == Init /\ [][NextRefetch]_vars

\* The two components that answer the checks and the file list columns.
NextConfig ==
    \/ ColumnCalls({"absolute-header-view"}, {PathNameA, PathNameB, PathNameBad}, MaxCalls)
    \/ ConfigSettlements({"enabled", "disabled", "failed"})
    \/ WarningCalls(MaxReplacements)
    \/ Settlements

SpecConfig == Init /\ [][NextConfig]_vars

\* The views of the file list attached over and over, under any project.
NextColumns ==
    \/ ColumnCalls(Views, {PathNameA, PathNameSlash, PathNameBad}, MaxColumnCalls)
    \/ ConfigSettlements(ConfigOutcomes)

SpecColumns == Init /\ [][NextColumns]_vars

\* fetchCoverageJsonData under every key, kind and network outcome of the bounds.
InitFetch ==
    /\ InitClient
    /\ input \in { << [fn |-> "fetchCoverageJsonData", changeInfo |-> changeInfo,
                       kind |-> kind, net |-> net] >> :
                    changeInfo \in FetchKeys, kind \in FetchKinds, net \in FetchNets }
    /\ output = <<>>

NextFetch == FetchCoverageJsonData

SpecFetch == InitFetch /\ [][NextFetch]_vars

\* The host locator on its own.
InitLocator ==
    /\ InitClient
    /\ input \in { << [fn |-> "getNormalizedHost", host |-> host] >> :
                    host \in LocatorHosts }
                 \cup
                 { << [fn |-> "parseProjectFromPathName", pathName |-> pathName] >> :
                    pathName \in LocatorPaths }
    /\ output = <<>>

NextLocator ==
    \/ GetNormalizedHost
    \/ ParseProjectFromPathName

SpecLocator == InitLocator /\ [][NextLocator]_vars

\* The two converters on their own: the percentage extractor over the
\* percentages responses, and both over the bodies without files.
InitConverters ==
    /\ InitClient
    /\ input \in { << [fn |-> "convertResponseJsonToCoveragePercentages",
                       responseJson |-> responseJson] >> :
                    responseJson \in PercentagesResponses \cup BodiesWithoutFiles }
                 \cup
                 { << [fn |-> "convertResponseJsonToCoverageRanges",
                       responseJson |-> responseJson] >> :
                    responseJson \in BodiesWithoutFiles
                        \cup LinesResponses(<<[line |-> Num(1), count |-> Num(1)]>>) }
    /\ output = <<>>

NextConverters ==
    \/ ConvertResponseJsonToCoveragePercentages
    \/ ConvertResponseJsonToCoverageRanges

SpecConverters == InitConverters /\ [][NextConverters]_vars

\* The range coalescer on its own, over the lines responses.
InitRanges ==
    /\ InitClient
    /\ input \in { << [fn |-> "convertResponseJsonToCoverageRanges",
                       responseJson |-> responseJson] >> :
                    responseJson \in UNION {LinesResponses(lines) : lines \in LineLists} }
    /\ output = <<>>

NextRanges == ConvertResponseJsonToCoverageRanges

SpecRanges == InitRanges /\ [][NextRanges]_vars

(***************************************************************************)
(* Properties                                                              *)
(***************************************************************************)
\* A key as the data model defines validity: both numbers are positive numbers.
KeyIsValid(changeInfo) ==
    /\ changeInfo.changeNum.t = "num" /\ changeInfo.changeNum.v > 0
    /\ changeInfo.patchNum.t = "num" /\ changeInfo.patchNum.v > 0

\* What the service holds for a valid key, as the accessors should hand it out.
ExpectedRanges(changeInfo) ==
    LET base == 10 * changeInfo.patchNum.v IN
    << [side |-> "right", type |-> "COVERED",
        code_range |-> [start_line |-> base, end_line |-> base]],
       [side |-> "right", type |-> "NOT_COVERED",
        code_range |-> [start_line |-> base + 1, end_line |-> base + 2]] >>

ExpectedPercentages(changeInfo) ==
    [absolute |-> Num(30 * changeInfo.patchNum.v), incremental |-> Num(50)]

Pending(kind, changeInfo) ==
    {p \in 1..Len(promises) : /\ promises[p].state = "pending"
                              /\ promises[p].kind = kind
                              /\ promises[p].changeInfo = changeInfo}

FetchesStarted(kind) == Cardinality({p \in 1..Len(promises) : promises[p].kind = kind})

KeysFetched == {promises[p].changeInfo : p \in 1..Len(promises)}

ReturnedFrom(op) ==
    /\ returned # <<>>
    /\ returned[1].op = op
    /\ returned[1].outcome = "resolved"

\* C1: the entry's two promises are the ones started for the entry's own key,
\* and once fulfilled they hold what the service has for that key, whatever
\* fetches of earlier keys settle before or after.
C1_EntryPromisesBelongToKey ==
    coverageData # <<>> =>
        LET entry == coverageData[1]
            ranges == promises[entry.rangesPromise]
            percentages == promises[entry.percentagesPromise]
        IN  /\ ranges.kind = "lines" /\ ranges.changeInfo = entry.changeInfo
            /\ percentages.kind = "percentages" /\ percentages.changeInfo = entry.changeInfo
            /\ ranges.state = "fulfilled" =>
                   ObjGet(PromiseValue(ranges), "a.cc") = ExpectedRanges(entry.changeInfo)
            /\ percentages.state = "fulfilled" =>
                   ObjGet(PromiseValue(percentages), "a.cc") = ExpectedPercentages(entry.changeInfo)

\* C1 witness: a fetch of a superseded key has been fulfilled and the entry's
\* ranges promise holds the data of the entry's key.
C1_Witness ==
    /\ coverageData # <<>>
    /\ promises[coverageData[1].rangesPromise].state = "fulfilled"
    /\ \E p \in 1..Len(promises) :
          /\ promises[p].kind = "lines"
          /\ promises[p].state = "fulfilled"
          /\ promises[p].changeInfo # coverageData[1].changeInfo

\* C2: as long as every call carried the same valid key, one fetch per kind
\* has been started and every suspended call awaits a promise of the entry;
\* and a call with the entry's key changes neither the entry nor the fetches.
C2_OneKeyInvariant ==
    Cardinality(KeysFetched) <= 1 =>
        /\ FetchesStarted("lines") <= 1
        /\ FetchesStarted("percentages") <= 1
        /\ \A c \in calls :
              c.promise \in {coverageData[1].rangesPromise, coverageData[1].percentagesPromise}

C2_SameKeyStep ==
    \A c \in calls' \ calls :
        (coverageData # <<>> /\ c.changeInfo = coverageData[1].changeInfo)
            => /\ coverageData' = coverageData
               /\ promises' = promises
               /\ c.promise \in {coverageData[1].rangesPromise,
                                 coverageData[1].percentagesPromise}

C2_SameKeyFetchedOnce == []C2_OneKeyInvariant /\ [][C2_SameKeyStep]_vars

\* C2 witness: a call is suspended on a promise of the entry that has already
\* been fulfilled, and still only the first two fetches exist.
C2_Witness ==
    /\ Len(promises) = 2
    /\ \E c \in calls : KeyIsValid(c.changeInfo) /\ promises[c.promise].state = "fulfilled"

\* C3 as stated: never two outstanding requests for one (key, kind).
C3_AtMostOneOutstanding ==
    \A p \in 1..Len(promises) :
        promises[p].state = "pending" =>
            Cardinality(Pending(promises[p].kind, promises[p].changeInfo)) <= 1

\* C3 amended: two outstanding requests for one (key, kind) were started with
\* a replacement of the entry by another key in between, and only one of the
\* outstanding requests of a kind belongs to the entry.
C3_DuplicatesOnlyAcrossKeys ==
    /\ \A p, q \in 1..Len(promises) :
          (/\ p < q
           /\ promises[p].state = "pending" /\ promises[q].state = "pending"
           /\ promises[p].kind = promises[q].kind
           /\ promises[p].changeInfo = promises[q].changeInfo)
              => \E r \in (p + 1)..(q - 1) : promises[r].changeInfo # promises[p].changeInfo
    /\ coverageData # <<>> =>
          /\ coverageData[1].rangesPromise = Len(promises) - 1
          /\ coverageData[1].percentagesPromise = Len(promises)

\* C3 witness: the cache left a key and came back while the key's first
\* request was outstanding.
C3_Witness ==
    \E p, q \in 1..Len(promises) :
        /\ p < q
        /\ promises[p].state = "pending" /\ promises[q].state = "pending"
        /\ promises[p].kind = promises[q].kind
        /\ promises[p].changeInfo = promises[q].changeInfo

\* C4: a call with a valid key awaits the promise started for that key, and
\* what it returns for a file the service reports is the data of that key.
C4_CallReturnsItsKeysData ==
    /\ \A c \in calls :
          KeyIsValid(c.changeInfo) => promises[c.promise].changeInfo = c.changeInfo
    /\ (ReturnedFrom("provideCoverageRanges") /\ KeyIsValid(returned[1].changeInfo)) =>
          /\ promises[returned[1].promise].changeInfo = returned[1].changeInfo
          /\ (returned[1].value.t = "array" /\ returned[1].path = "a.cc") =>
                 returned[1].value.v = ExpectedRanges(returned[1].changeInfo)
    /\ (ReturnedFrom("provideCoveragePercentages") /\ KeyIsValid(returned[1].changeInfo)) =>
          /\ promises[returned[1].promise].changeInfo = returned[1].changeInfo
          /\ returned[1].value.t = "object" =>
                 returned[1].value.v = ExpectedPercentages(returned[1].changeInfo)

\* C4 witness: a call returned the data of its key after the entry had been
\* replaced by another key.
C4_Witness ==
    /\ ReturnedFrom("provideCoverageRanges")
    /\ KeyIsValid(returned[1].changeInfo)
    /\ returned[1].value.t = "array"
    /\ returned[1].value.v # <<>>
    /\ coverageData[1].changeInfo # returned[1].changeInfo

\* C5: no fetch was ever started for an invalid key and the entry never holds
\* one; a call with an invalid key changes neither the entry nor the fetches.
C5_NoFetchForInvalidKey ==
    /\ \A p \in 1..Len(promises) : KeyIsValid(promises[p].changeInfo)
    /\ coverageData # <<>> => KeyIsValid(coverageData[1].changeInfo)

C5_InvalidKeyStep ==
    /\ \A c \in calls' \ calls :
          ~KeyIsValid(c.changeInfo) => (coverageData' = coverageData /\ promises' = promises)
    /\ (returned' # <<>> /\ returned'[1].outcome = "resolved"
            /\ returned'[1].promise = 0 /\ returned'[1].op # "showPercentageColumns")
          => (coverageData' = coverageData /\ promises' = promises)

C5_InvalidKeyIsNoOp == []C5_NoFetchForInvalidKey /\ [][C5_InvalidKeyStep]_vars

\* C5 witness: a call with an invalid key is suspended on the entry of another key.
C5_Witness ==
    \E c \in calls : ~KeyIsValid(c.changeInfo) /\ Len(promises) >= 2

\* C6: provideCoverageRanges with a valid key returns the file's range list,
\* an empty list for a file without entry, and undefined after a failure.
C6_RangesResult ==
    (ReturnedFrom("provideCoverageRanges") /\ KeyIsValid(returned[1].changeInfo)) =>
        LET r == returned[1]
            promise == promises[r.promise]
        IN  /\ r.promise # 0
            /\ (promise.state = "fulfilled" /\ ObjHas(PromiseValue(promise), r.path)) =>
                   (r.value.t = "array" /\ r.value.v = ObjGet(PromiseValue(promise), r.path))
            /\ (promise.state = "fulfilled" /\ ~ObjHas(PromiseValue(promise), r.path)) =>
                   (r.value.t = "array" /\ r.value.v = <<>>)
            /\ promise.state = "rejected" => r.value.t = "undefined"

\* C6 witness: provideCoverageRanges returned undefined after a failed fetch.
C6_Witness ==
    /\ ReturnedFrom("provideCoverageRanges")
    /\ KeyIsValid(returned[1].changeInfo)
    /\ promises[returned[1].promise].state = "rejected"
    /\ returned[1].value.t = "undefined"

\* C7 as stated: provideCoveragePercentages returns undefined for a file
\* without entry and undefined after a failure.
C7_UndefinedOnFailure ==
    (ReturnedFrom("provideCoveragePercentages") /\ KeyIsValid(returned[1].changeInfo)) =>
        LET r == returned[1]
            promise == promises[r.promise]
        IN  /\ (promise.state = "fulfilled" /\ ObjHas(PromiseValue(promise), r.path)) =>
                   (r.value.t = "object" /\ r.value.v = ObjGet(PromiseValue(promise), r.path))
            /\ (promise.state = "fulfilled" /\ ~ObjHas(PromiseValue(promise), r.path)) =>
                   r.value.t = "undefined"
            /\ promise.state = "rejected" => r.value.t = "undefined"

\* C7 amended: provideCoveragePercentages returns the file's PercentageData,
\* undefined for a file without entry, and null after a failure.
C7_NullOnFailure ==
    (ReturnedFrom("provideCoveragePercentages") /\ KeyIsValid(returned[1].changeInfo)) =>
        LET r == returned[1]
            promise == promises[r.promise]
        IN  /\ r.promise # 0
            /\ (promise.state = "fulfilled" /\ ObjHas(PromiseValue(promise), r.path)) =>
                   (r.value.t = "object" /\ r.value.v = ObjGet(PromiseValue(promise), r.path))
            /\ (promise.state = "fulfilled" /\ ~ObjHas(PromiseValue(promise), r.path)) =>
                   r.value.t = "undefined"
            /\ promise.state = "rejected" => r.value.t = "null"

\* C7 witness: provideCoveragePercentages returned for a file without entry.
C7_Witness ==
    /\ ReturnedFrom("provideCoveragePercentages")
    /\ KeyIsValid(returned[1].changeInfo)
    /\ promises[returned[1].promise].state = "fulfilled"
    /\ returned[1].path = "none.cc"
    /\ returned[1].value.t = "undefined"

\* The warnings of a response, over all its runs.
RECURSIVE WarningsOf(_)
WarningsOf(runs) ==
    IF runs = <<>> THEN <<>> ELSE runs[1].results \o WarningsOf(Tail(runs))

\* C8 as stated: mayBeShowLowCoverageWarning and showPercentageColumns never
\* reject; whatever goes wrong, the one resolves to an OK response without
\* warnings and the other to false.
C8_FailClosed ==
    (returned # <<>> /\ returned[1].op \in {"mayBeShowLowCoverageWarning",
                                            "showPercentageColumns"}) =>
        /\ returned[1].outcome = "resolved"
        /\ (returned[1].op = "mayBeShowLowCoverageWarning"
                /\ returned[1].promise # 0
                /\ promises[returned[1].promise].state = "rejected") =>
              (/\ returned[1].value.v.responseCode = "OK"
               /\ WarningsOf(returned[1].value.v.runs) = <<>>)
        /\ (returned[1].op = "showPercentageColumns"
                /\ configPromises[returned[1].promise].state = "rejected") =>
              returned[1].value.v = FALSE

\* C9 as stated: a completed run holds exactly one warning for each file whose
\* incremental percentage is present and below the bar, and none for the others.
C9_WarningForEachFileBelowBar ==
    (/\ ReturnedFrom("mayBeShowLowCoverageWarning")
     /\ returned[1].promise # 0
     /\ promises[returned[1].promise].state = "fulfilled") =>
        LET percentages == PromiseValue(promises[returned[1].promise])
            warnings == WarningsOf(returned[1].value.v.runs)
        IN  /\ Len(returned[1].value.v.runs) = 1
            /\ \A i \in 1..Len(percentages) :
                  LET fileCov == percentages[i][2]
                      below == /\ "incremental" \in DOMAIN fileCov
                               /\ fileCov.incremental.t = "num"
                               /\ fileCov.incremental.v < 70
                      count == Cardinality({w \in 1..Len(warnings) :
                                              warnings[w].file = percentages[i][1]})
                  IN  count = IF below THEN 1 ELSE 0

FetchCame ==
    /\ output # <<>>
    /\ input[1].fn = "fetchCoverageJsonData"
    /\ input[1].kind \in {"lines", "percentages"}
    /\ input[1].changeInfo.patchNum # Undefined

HasFlagFalse(net, flag) ==
    net.arrived = "response" /\ flag \in DOMAIN net.body /\ net.body[flag] = FALSE

\* C11 as stated: once a response has arrived fetchCoverageJsonData returns
\* its parsed body exactly for a 2xx status; a 400 flagged is_project_supported
\* = false fails as unsupported project, a 500 flagged is_service_enabled =
\* false as disabled service, and every other non-2xx response, whatever its
\* body, as the HTTP error of its status.
C11_StatusDecidesOutcome ==
    (FetchCame /\ input[1].net.arrived # "networkError") =>
        LET net == input[1].net
            result == output[1].result
            unsupported == net.status = 400 /\ HasFlagFalse(net, "is_project_supported")
            disabled == net.status = 500 /\ HasFlagFalse(net, "is_service_enabled")
        IN  /\ result.ok => (ResponseOk(net.status) /\ result.value = net.body)
            /\ (ResponseOk(net.status) /\ net.arrived # "unparsable") => result.ok
            /\ unsupported => (~result.ok /\ result.error = "project is not supported for code coverage")
            /\ disabled => (~result.ok /\ result.error = "Code coverage service is temporarily disabled")
            /\ (~ResponseOk(net.status) /\ ~unsupported /\ ~disabled) =>
                   /\ ~result.ok
                   /\ result.error = "Request code coverage data returned http"
                   /\ result.status = net.status

\* The endpoint the resolver table gives, spelled out host by host.
ExpectedEndpoint(host) ==
    CASE host = ChromiumReviewHost ->
           "https://findit-for-me.appspot.com/coverage/api/coverage-data"
      [] host \in {LibassistantCorpHost, LibassistantHost} ->
           "https://gob-coverage.googleplex.com/coverage/api/coverage-data"
      [] OTHER -> "https://findit-for-me.appspot.com/coverage/api/coverage-data"

\* The value a query string gives a field, with %2F read back as "/".
RECURSIVE FormDecode(_)
FormDecode(str) ==
    IF str = <<>> THEN <<>>
    ELSE IF Len(str) >= 3 /\ SubSeq(str, 1, 3) = <<"%", "2", "F">>
         THEN <<"/">> \o FormDecode(SubSeq(str, 4, Len(str)))
         ELSE <<str[1]>> \o FormDecode(Tail(str))

\* C12 as stated: fetchCoverageJsonData issues a single GET; its endpoint is the table's
\* entry for exactly the key's host, the Chromium endpoint for any other host,
\* followed by /coverage/api/coverage-data; its query holds host, project,
\* change and patchset of the key, the kind as type, format=json and concise=1.
C12_RequestTargetsResolvedEndpoint ==
    FetchCame =>
        LET key == input[1].changeInfo
            requests == output[1].requests
            params == requests[1].params
            field(i) == <<params[i][1], FormDecode(params[i][2])>>
        IN  /\ Len(requests) = 1
            /\ requests[1].endpoint = ExpectedEndpoint(key.host)
            /\ Len(params) = 7
            /\ field(1) = <<"host", key.host>>
            /\ field(2) = <<"project", key.project>>
            /\ field(3) = <<"change", <<"1">> >>
            /\ field(4) = <<"patchset", IF key.patchNum = Num(1) THEN <<"1">> ELSE <<"2">> >>
            /\ field(5) = <<"type", <<input[1].kind>> >>
            /\ field(6) = <<"format", <<"json">> >>
            /\ field(7) = <<"concise", <<"1">> >>

\* The endpoints of the Chromium projects' coverage services.
ChromiumEndpoints ==
    {GOB_COVERAGE_HOST \o COVERAGE_SERVICE_ENDPOINT_SUFFIX,
     CHROMIUM_COVERAGE_HOST \o COVERAGE_SERVICE_ENDPOINT_SUFFIX}

\* C13 as stated: the coverage data of a change is fetched from the endpoint
\* the project's code-coverage configuration sets, and from one of the default
\* Chromium endpoints only when the project sets none.
C13_FetchUsesConfiguredEndpoint ==
    \A p \in 1..Len(promises) :
        LET config == GetConfig(ProjectConfig(promises[p].changeInfo.project))
            url == RequestUrl(promises[p].changeInfo, promises[p].kind)
        IN  /\ config.endpoint # "" => url.endpoint = config.endpoint
            /\ url.endpoint \in ChromiumEndpoints => config.endpoint = ""

\* The call of showPercentageColumns that has just resolved for the view.
ColumnsResolvedFor(ret, view) ==
    /\ ret # <<>>
    /\ ret[1].op = "showPercentageColumns"
    /\ ret[1].outcome = "resolved"
    /\ ret[1].view = view

\* The lookup behind config promise p succeeded with enabled = true.
LookupEnabled(p) ==
    /\ configPromises[p].state = "fulfilled"
    /\ configPromises[p].answer = "enabled"

C14_ShownNeedsEnabledLookup ==
    \A view \in Views :
        shown[view] => \E p \in 1..Len(configPromises) : LookupEnabled(p)

C14_ShownStep ==
    \A view \in Views :
        IF ColumnsResolvedFor(returned', view)
        THEN /\ shown'[view] = returned'[1].value.v
             /\ returned'[1].value.v = LookupEnabled(returned'[1].promise)
        ELSE shown'[view] = shown[view]

\* C14: the percentage columns are hidden by default: every view starts with
\* shown = false, the flag changes only when a showPercentageColumns call of
\* the view resolves, it then takes the value the call resolved to, and that
\* value is true only when the lookup of the project's config succeeded with
\* enabled = true: a failed lookup and a project without the setting give false.
C14_ColumnsHiddenByDefault ==
    /\ \A view \in Views : shown[view] = FALSE
    /\ [](C14_ShownNeedsEnabledLookup)
    /\ [][C14_ShownStep]_vars

\* C14 witness: one view is shown after the lookup for its project answered
\* enabled = true, while the call of the other view has just resolved false
\* on the lookup of a project that has no setting.
C14_Witness ==
    /\ shown["absolute-header-view"]
    /\ ~shown["absolute-content-view"]
    /\ ColumnsResolvedFor(returned, "absolute-content-view")
    /\ configPromises[returned[1].promise].answer = "unset"

\* The path the config of a project is read from, spelled out.
ExpectedConfigUrl(project) ==
    CASE project = ProjectA -> <<"/", "p", "r", "o", "j", "e", "c", "t", "s", "/", "a", "/", "c", "h", "r", "o", "m", "i", "u", "m", "-", "c", "o", "v", "e", "r", "a", "g", "e", "~", "c", "o", "n", "f", "i", "g">>
      [] project = ProjectSlash -> <<"/", "p", "r", "o", "j", "e", "c", "t", "s", "/", "b", "%", "2", "F", "c", "/", "c", "h", "r", "o", "m", "i", "u", "m", "-", "c", "o", "v", "e", "r", "a", "g", "e", "~", "c", "o", "n", "f", "i", "g">>

\* The new calls of a step.
NewColumnCalls == columnCalls' \ columnCalls

C15_LookupsFollowProjectChanges ==
    /\ \A p \in 1..Len(configPromises) :
          /\ configPromises[p].url = ExpectedConfigUrl(configPromises[p].project)
          /\ p > 1 => configPromises[p].project # configPromises[p - 1].project
    /\ coverageConfig # <<>> =>
          /\ coverageConfig[1].configPromise = Len(configPromises)
          /\ coverageConfig[1].project = configPromises[Len(configPromises)].project
    /\ coverageConfig = <<>> => configPromises = <<>>

C15_LookupStep ==
    /\ configPromises' # configPromises /\ Len(configPromises') # Len(configPromises) =>
          /\ Len(configPromises') = Len(configPromises) + 1
          /\ \A p \in 1..Len(configPromises) :
                configPromises'[p] = configPromises[p]
          /\ \/ coverageConfig = <<>>
             \/ configPromises'[Len(configPromises')].project # coverageConfig[1].project
    /\ \A c \in NewColumnCalls :
          IF coverageConfig # <<>> /\ c.project = coverageConfig[1].project
          THEN /\ configPromises' = configPromises
               /\ coverageConfig' = coverageConfig
               /\ c.promise = coverageConfig[1].configPromise
          ELSE /\ Len(configPromises') = Len(configPromises) + 1
               /\ c.promise = Len(configPromises')

\* C15: a config REST GET to /projects/{project}/{pluginName}~config is issued
\* only when there is no config entry or the project parsed from the page
\* differs from the entry's project; a call for the entry's project issues no
\* GET and awaits the entry's lookup, whether that lookup is pending, has
\* succeeded or has failed.
C15_OneLookupPerProject ==
    /\ [](C15_LookupsFollowProjectChanges)
    /\ [][C15_LookupStep]_vars

\* C15 witness: a single lookup was issued and has failed, the call of one
\* view has resolved on it and the call of the other view awaits it.
C15_Witness ==
    /\ Len(configPromises) = 1
    /\ configPromises[1].state = "rejected"
    /\ ColumnsResolvedFor(returned, "absolute-header-view")
    /\ returned[1].promise = 1
    /\ \E c \in columnCalls : c.view = "absolute-content-view" /\ c.promise = 1

\* The files of the lines response converted, and what the conversion came to.
ConvertedFiles == input[1].responseJson.data.files

ConversionDone == input # <<>> /\ output # <<>>

ConversionResult == output[1].result

\* The line list has a positive number as the line of every entry, and no
\* line twice.
DistinctPositiveLines(lines) ==
    /\ \A k \in 1..Len(lines) :
          /\ "line" \in DOMAIN lines[k]
          /\ IsNum(lines[k].line)
          /\ lines[k].line.v > 0
    /\ \A k1, k2 \in 1..Len(lines) : k1 # k2 => lines[k1].line # lines[k2].line

\* The files of the response whose line lists are such.
DistinctPositiveFiles ==
    {i \in 1..Len(ConvertedFiles) :
        /\ "lines" \in DOMAIN ConvertedFiles[i]
        /\ DistinctPositiveLines(ConvertedFiles[i].lines)}

\* The ranges the conversion produced for the i-th file.
RangesOfFile(i) == ObjGet(ConversionResult.value, ConvertedFiles[i].path)

\* C16: for every file whose lines are pairwise distinct positive numbers,
\* the ranges produced are in ascending order and do not overlap (each range
\* ends before the next starts), have start_line <= end_line, and are maximal:
\* no range is followed by a range of the same type that starts at its
\* end_line + 1.
C16_RangesOrderedDisjointMaximal ==
    ConversionDone /\ ConversionResult.ok =>
        \A i \in DistinctPositiveFiles :
            LET ranges == RangesOfFile(i) IN
            /\ \A k \in 1..Len(ranges) :
                  ranges[k].code_range.start_line <= ranges[k].code_range.end_line
            /\ \A k \in 1..(Len(ranges) - 1) :
                  /\ ranges[k].code_range.end_line < ranges[k + 1].code_range.start_line
                  /\ ~(/\ ranges[k].type = ranges[k + 1].type
                       /\ ranges[k + 1].code_range.start_line
                            = ranges[k].code_range.end_line + 1)

\* C16 witness: a file whose lines come out of order is converted to two
\* ranges, the first of them a merged run of two lines.
C16_Witness ==
    /\ ConversionDone /\ ConversionResult.ok
    /\ 1 \in DistinctPositiveFiles
    /\ Len(ConvertedFiles[1].lines) = 3
    /\ ConvertedFiles[1].lines[1].line.v > ConvertedFiles[1].lines[2].line.v
    /\ Len(RangesOfFile(1)) = 2
    /\ RangesOfFile(1)[1].code_range.start_line < RangesOfFile(1)[1].code_range.end_line

\* Every entry of the line list has a count that is a number, zero or more.
CountsAreNumbers(lines) ==
    \A k \in 1..Len(lines) :
        /\ "count" \in DOMAIN lines[k]
        /\ IsNum(lines[k].count)
        /\ lines[k].count.v >= 0

\* The files whose line lists are LineHits as the data model has them:
\* distinct positive lines with counts.
LineHitFiles ==
    {i \in DistinctPositiveFiles : CountsAreNumbers(ConvertedFiles[i].lines)}

\* The ranges of a list that contain line n.
RangesHolding(ranges, n) ==
    {k \in 1..Len(ranges) :
        ranges[k].code_range.start_line <= n /\ n <= ranges[k].code_range.end_line}

\* C17: for every file with distinct line numbers the ranges partition exactly
\* the input lines: each input line lies in exactly one range, that range is
\* COVERED when the line's count is above 0 and NOT_COVERED when it is 0,
\* every range has side right, and every line number inside a range is a line
\* of the input. A response all of whose files are such is converted.
C17_RangesPartitionInputLines ==
    ConversionDone =>
        /\ (/\ LineHitFiles = 1..Len(ConvertedFiles)
            /\ \A i \in 1..Len(ConvertedFiles) :
                  "path" \in DOMAIN ConvertedFiles[i] /\ ConvertedFiles[i].path # "")
           => ConversionResult.ok
        /\ ConversionResult.ok =>
              \A i \in LineHitFiles :
                  LET ranges == RangesOfFile(i)
                      lines == ConvertedFiles[i].lines
                  IN  /\ \A j \in 1..Len(lines) :
                            /\ Cardinality(RangesHolding(ranges, lines[j].line.v)) = 1
                            /\ \A k \in RangesHolding(ranges, lines[j].line.v) :
                                  ranges[k].type = IF lines[j].count.v > 0
                                                   THEN "COVERED" ELSE "NOT_COVERED"
                      /\ \A k \in 1..Len(ranges) :
                            /\ ranges[k].side = "right"
                            /\ \A n \in ranges[k].code_range.start_line
                                         ..ranges[k].code_range.end_line :
                                  \E j \in 1..Len(lines) : lines[j].line = Num(n)

\* C17 witness: the lines (1, 2), (2, 0), (3, 0) are converted to COVERED 1-1
\* and NOT_COVERED 2-3.
C17_Witness ==
    /\ ConversionDone /\ ConversionResult.ok
    /\ ConvertedFiles[1].lines = << [line |-> Num(1), count |-> Num(2)],
                                    [line |-> Num(2), count |-> Num(0)],
                                    [line |-> Num(3), count |-> Num(0)] >>
    /\ RangesOfFile(1) = << [side |-> "right", type |-> "COVERED",
                             code_range |-> [start_line |-> 1, end_line |-> 1]],
                            [side |-> "right", type |-> "NOT_COVERED",
                             code_range |-> [start_line |-> 2, end_line |-> 3]] >>

\* The lines response with the line list of its i-th file reordered by p.
Reordered(responseJson, i, p) ==
    LET lines == responseJson.data.files[i].lines IN
    [responseJson EXCEPT !.data.files[i].lines = [k \in 1..Len(lines) |-> lines[p[k]]]]

\* C18: the conversion does not depend on the order of the input: for every
\* file with distinct line numbers, the response with that file's line list
\* in any other order is converted to the same result.
C18_OrderInsensitive ==
    ConversionDone =>
        \A i \in DistinctPositiveFiles :
            \A p \in Permutations(1..Len(ConvertedFiles[i].lines)) :
                convertResponseJsonToCoverageRanges(Reordered(input[1].responseJson, i, p))
                    = ConversionResult

\* C18 witness: a file whose three lines arrive in descending order is
\* converted to ranges.
C18_Witness ==
    /\ ConversionDone /\ ConversionResult.ok
    /\ 1 \in LineHitFiles
    /\ Len(ConvertedFiles[1].lines) = 3
    /\ ConvertedFiles[1].lines[1].line.v > ConvertedFiles[1].lines[2].line.v
    /\ ConvertedFiles[1].lines[2].line.v > ConvertedFiles[1].lines[3].line.v
    /\ Len(RangesOfFile(1)) >= 2
    /\ RangesOfFile(1)[1].code_range.start_line = ConvertedFiles[1].lines[3].line.v

\* The errors the conversion reports a malformed lines response with.
MalformedLinesErrors ==
    {"Invalid coverage lines response format. Expecting data property",
     "Invalid coverage lines response format. Expecting files property",
     "Invalid coverage lines response format. Expecting path and lines properties",
     "Invalid coverage lines response format. Expecting line and count properties"}

ConversionFailedMalformed ==
    /\ ~ConversionResult.ok
    /\ ConversionResult.error \in MalformedLinesErrors

\* The files without a path or with an empty one, without a line list, and
\* with an empty line list.
FilesWithoutPath ==
    {i \in 1..Len(ConvertedFiles) :
        "path" \notin DOMAIN ConvertedFiles[i] \/ ConvertedFiles[i].path = ""}

FilesWithoutLines ==
    {i \in 1..Len(ConvertedFiles) : "lines" \notin DOMAIN ConvertedFiles[i]}

FilesWithEmptyLines ==
    {i \in 1..Len(ConvertedFiles) :
        "lines" \in DOMAIN ConvertedFiles[i] /\ ConvertedFiles[i].lines = <<>>}

\* C19 as stated: the conversion fails with a malformed-response error,
\* returning no map, for every lines response with a file whose path is
\* missing or empty or whose line list is missing or empty.
C19_EmptyLineListRejected ==
    ConversionDone /\ (FilesWithoutPath \cup FilesWithoutLines \cup FilesWithEmptyLines) # {}
        => ConversionFailedMalformed

\* C19 amended: the conversion fails with a malformed-response error, returning
\* no map, for every lines response with a file whose path is missing or empty
\* or whose line list is missing; an empty line list is accepted: a response
\* whose files all have a path and well-formed lines, empty lists among them,
\* is converted, and a file with an empty line list gets an empty range list.
C19_MissingPathOrLinesRejected ==
    ConversionDone =>
        /\ (FilesWithoutPath \cup FilesWithoutLines) # {} => ConversionFailedMalformed
        /\ FilesWithoutPath = {} /\ LineHitFiles = 1..Len(ConvertedFiles)
              => ConversionResult.ok
        /\ ConversionResult.ok =>
              \A i \in FilesWithEmptyLines : RangesOfFile(i) = <<>>

\* C19 witness: a response with a file that has lines and a file whose line
\* list is empty is converted; the second file has no ranges.
C19_Witness ==
    /\ ConversionDone /\ ConversionResult.ok
    /\ Len(ConvertedFiles) = 2
    /\ FilesWithEmptyLines = {2}
    /\ RangesOfFile(1) # <<>>
    /\ RangesOfFile(2) = <<>>

\* A line entry with a falsy line number (0, or none at all) or a null count.
FalsyLineOrNullCount(l) ==
    \/ "line" \notin DOMAIN l
    \/ l.line = Num(0)
    \/ ("count" \in DOMAIN l /\ l.count = Null)

\* The files with a line list that holds such an entry.
FilesWithBadEntry ==
    {i \in 1..Len(ConvertedFiles) :
        /\ "lines" \in DOMAIN ConvertedFiles[i]
        /\ \E j \in 1..Len(ConvertedFiles[i].lines) :
              FalsyLineOrNullCount(ConvertedFiles[i].lines[j])}

FilesWithDuplicateLine ==
    {i \in 1..Len(ConvertedFiles) :
        /\ "lines" \in DOMAIN ConvertedFiles[i]
        /\ \E j1, j2 \in 1..Len(ConvertedFiles[i].lines) :
              /\ j1 # j2
              /\ "line" \in DOMAIN ConvertedFiles[i].lines[j1]
              /\ "line" \in DOMAIN ConvertedFiles[i].lines[j2]
              /\ ConvertedFiles[i].lines[j1].line = ConvertedFiles[i].lines[j2].line}

\* C21 as stated: a lines response in which a file's line list has the same
\* line number more than once is rejected as malformed, not converted.
C21_DuplicateLineRejected ==
    ConversionDone /\ FilesWithDuplicateLine # {} => ConversionFailedMalformed

\* The percentages response converted and its files.
PercentagesConverted ==
    /\ input # <<>> /\ output # <<>>
    /\ input[1].fn = "convertResponseJsonToCoveragePercentages"

PercentagesFiles == input[1].responseJson.data.files

\* The file has the pair: the property is there and is not null.
PairPresent(file, pairName) == pairName \in DOMAIN file /\ file[pairName] # <<>>

\* A valid percentages response: data.files, and in every file a path and
\* the absolute_coverage pair.
PercentagesResponseValid(responseJson) ==
    /\ "data" \in DOMAIN responseJson
    /\ "files" \in DOMAIN responseJson.data
    /\ \A i \in 1..Len(responseJson.data.files) :
          /\ "path" \in DOMAIN responseJson.data.files[i]
          /\ responseJson.data.files[i].path # ""
          /\ PairPresent(responseJson.data.files[i], "absolute_coverage")

\* The PercentageData the conversion produced for the i-th file.
PercentageDataOfFile(i) == ObjGet(output[1].result.value, PercentagesFiles[i].path)

\* C22: a valid percentages response is converted, and for every file of it
\* the PercentageData has the field absolute, and has each of incremental,
\* absolute_unit_tests and incremental_unit_tests exactly when the file has
\* the corresponding pair; a field whose pair is absent or null is not in the
\* result at all.
C22_FieldPresentIffPairPresent ==
    PercentagesConverted /\ PercentagesResponseValid(input[1].responseJson) =>
        /\ output[1].result.ok
        /\ \A i \in 1..Len(PercentagesFiles) :
              /\ "absolute" \in DOMAIN PercentageDataOfFile(i)
              /\ ("incremental" \in DOMAIN PercentageDataOfFile(i))
                    = PairPresent(PercentagesFiles[i], "incremental_coverage")
              /\ ("absolute_unit_tests" \in DOMAIN PercentageDataOfFile(i))
                    = PairPresent(PercentagesFiles[i], "absolute_unit_tests_coverage")
              /\ ("incremental_unit_tests" \in DOMAIN PercentageDataOfFile(i))
                    = PairPresent(PercentagesFiles[i], "incremental_unit_tests_coverage")
              /\ DOMAIN PercentageDataOfFile(i) \subseteq
                    {"absolute", "incremental", "absolute_unit_tests",
                     "incremental_unit_tests"}

\* C22 witness: a file with the absolute pair 3 of 10, a null incremental
\* pair, no absolute_unit_tests pair and an incremental_unit_tests pair is
\* converted to absolute and incremental_unit_tests alone.
C22_Witness ==
    /\ PercentagesConverted /\ output[1].result.ok
    /\ Len(PercentagesFiles) = 1
    /\ DOMAIN PercentagesFiles[1] = {"path", "absolute_coverage", "incremental_coverage",
                                     "incremental_unit_tests_coverage"}
    /\ PercentagesFiles[1].absolute_coverage = <<[covered |-> 3, total |-> 10]>>
    /\ PercentagesFiles[1].incremental_coverage = <<>>
    /\ PairPresent(PercentagesFiles[1], "incremental_unit_tests_coverage")
    /\ DOMAIN PercentageDataOfFile(1) = {"absolute", "incremental_unit_tests"}
    /\ PercentageDataOfFile(1).absolute = Num(30)

\* The field of a PercentageData and the pair it is computed from.
FieldPairs ==
    {<<"absolute", "absolute_coverage">>,
     <<"incremental", "incremental_coverage">>,
     <<"absolute_unit_tests", "absolute_unit_tests_coverage">>,
     <<"incremental_unit_tests", "incremental_unit_tests_coverage">>}

\* n is covered * 100 / total rounded to the nearest integer, a half up.
IsRoundedPercentage(n, pair) ==
    /\ 2 * n * pair.total <= 200 * pair.covered + pair.total
    /\ 200 * pair.covered + pair.total < 2 * (n + 1) * pair.total

\* C23 as stated: every percentage field of a result is an integer in 0..100
\* equal to covered * 100 / total rounded to the nearest integer, a half
\* rounding up, for every pair of non-negative integers the conversion accepts.
C23_PercentageIsRoundedRatio ==
    PercentagesConverted /\ output[1].result.ok =>
        \A i \in 1..Len(PercentagesFiles) : \A fp \in FieldPairs :
            fp[1] \in DOMAIN PercentageDataOfFile(i) =>
                LET value == PercentageDataOfFile(i)[fp[1]]
                    pair == PercentagesFiles[i][fp[2]][1]
                IN  /\ IsNum(value)
                    /\ value.v \in 0..100
                    /\ IsRoundedPercentage(value.v, pair)

\* The errors the percentage conversion reports a malformed response with.
MalformedPercentagesErrors ==
    {"Invalid coverage percentages response format. Expecting data property",
     "Invalid coverage percentages response format. Expecting files property",
     "Invalid coverage percentages response format. Expecting path and absolute_coverage properties"}

\* The call failed with a malformed-response error of its converter, and
\* returned no map.
FailedMalformedWithoutMap ==
    /\ ~output[1].result.ok
    /\ "value" \notin DOMAIN output[1].result
    /\ output[1].result.error \in
         (IF input[1].fn = "convertResponseJsonToCoveragePercentages"
          THEN MalformedPercentagesErrors ELSE MalformedLinesErrors)

BodyLacksFiles(responseJson) ==
    \/ "data" \notin DOMAIN responseJson
    \/ "files" \notin DOMAIN responseJson.data

\* The files of a percentages response that lack path or absolute_coverage.
FilesLackingPathOrAbsolute ==
    {i \in 1..Len(PercentagesFiles) :
        \/ "path" \notin DOMAIN PercentagesFiles[i]
        \/ "absolute_coverage" \notin DOMAIN PercentagesFiles[i]}

HostNormalized ==
    /\ input # <<>> /\ output # <<>>
    /\ input[1].fn = "getNormalizedHost"

\* The prefixes of the list, by index, that the host starts with.
PrefixesOf(host) == {i \in 1..3 : StartsWith(host, HOST_PREFIXES[i])}

\* C25: getNormalizedHost removes exactly the first prefix of the list
\* canary-, polymer1-, polymer2- that the host starts with and nothing more: the
\* host is that prefix followed by the result, so a second prefix behind the
\* first is kept; a host that starts with none of them is returned unchanged.
C25_OnePrefixStripped ==
    HostNormalized =>
        LET host == input[1].host
            result == output[1].result
        IN  IF PrefixesOf(host) = {}
            THEN result = host
            ELSE \E i \in PrefixesOf(host) :
                    /\ \A j \in PrefixesOf(host) : i <= j
                    /\ host = HOST_PREFIXES[i] \o result

\* C25 witness: canary-polymer1-h is normalized to polymer1-h.
C25_Witness ==
    /\ HostNormalized
    /\ input[1].host = CanaryPrefix \o Polymer1Prefix \o <<"h">>
    /\ output[1].result = Polymer1Prefix \o <<"h">>

\* parseProjectFromPathName has been applied to a path.
PathParsed ==
    /\ input # <<>> /\ output # <<>>
    /\ input[1].fn = "parseProjectFromPathName"

\* The 0-based indexes at which the delimiter /+ occurs in the path.
DelimitersIn(path) ==
    {d \in 0..(Len(path) - 2) : path[d + 1] = "/" /\ path[d + 2] = "+"}

BeginsWithMarker(path) ==
    Len(path) >= 3 /\ SubSeq(path, 1, 3) = <<"/", "c", "/">>

\* C26 as stated: for every path that starts with /c/ and contains the
\* delimiter /+, the result is exactly the substring between the leading /c/
\* and the first delimiter, whatever follows the delimiter; every path that
\* does not start with /c/ or contains no /+ fails with an error.
C26_ProjectBetweenMarkers ==
    PathParsed =>
        LET path == input[1].pathName
            result == output[1].result
        IN  IF BeginsWithMarker(path) /\ DelimitersIn(path) # {}
            THEN LET d == CHOOSE d \in DelimitersIn(path) :
                              \A e \in DelimitersIn(path) : d <= e
                 IN  /\ result.ok
                     /\ result.value = SubSeq(path, 4, d)
            ELSE ~result.ok

\* The key prefetchCoverageRanges builds from its arguments.
KeyOf(arguments) ==
    [host |-> getNormalizedHost(arguments[1]),
     project |-> arguments[2].project,
     changeNum |-> arguments[2]._number,
     patchNum |-> IF arguments[3].type = "number" THEN Num(arguments[3].n) ELSE NaN]

\* Two keys differ in at least one of their four parts.
KeysDiffer(k1, k2) ==
    \/ k1.host # k2.host
    \/ k1.project # k2.project
    \/ k1.changeNum # k2.changeNum
    \/ k1.patchNum # k2.patchNum

\* The entry was replaced as a whole by one for the key, and one lines fetch
\* and one percentages fetch for the key were started, in this step.
ReplacedWithTwoFetches(key) ==
    /\ Len(promises') = Len(promises) + 2
    /\ SubSeq(promises', 1, Len(promises)) = promises
    /\ promises'[Len(promises) + 1] = [kind |-> "lines", changeInfo |-> key,
                                        state |-> "pending", net |-> "",
                                        handled |-> TRUE, warned |-> FALSE]
    /\ promises'[Len(promises) + 2] = [kind |-> "percentages", changeInfo |-> key,
                                        state |-> "pending", net |-> "",
                                        handled |-> TRUE, warned |-> FALSE]
    /\ coverageData' = << [changeInfo |-> key,
                           rangesPromise |-> Len(promises) + 1,
                           percentagesPromise |-> Len(promises) + 2] >>

C27_ReplacementStep ==
    \A arguments \in KeyArguments :
        PrefetchCoverageRanges(arguments[1], arguments[2], arguments[3]) =>
            IF /\ KeyIsValid(KeyOf(arguments))
               /\ \/ coverageData = <<>>
                  \/ KeysDiffer(KeyOf(arguments), coverageData[1].changeInfo)
            THEN ReplacedWithTwoFetches(KeyOf(arguments))
            ELSE UNCHANGED <<coverageData, promises>>

\* A call with a valid key that finds no entry or an entry for a key differing
\* in some part can only end with the replacement and the two fetches.
C27_DifferenceReplaces ==
    \A arguments \in KeyArguments :
        (/\ KeyIsValid(KeyOf(arguments))
         /\ \/ coverageData = <<>>
            \/ KeysDiffer(KeyOf(arguments), coverageData[1].changeInfo))
        => ENABLED (/\ PrefetchCoverageRanges(arguments[1], arguments[2], arguments[3])
                    /\ ReplacedWithTwoFetches(KeyOf(arguments)))

C27_FetchesMatchReplacements ==
    /\ Len(promises) % 2 = 0
    /\ \A p \in 1..Len(promises) :
          promises[p].kind = IF p % 2 = 1 THEN "lines" ELSE "percentages"
    /\ \A p \in 1..(Len(promises) \div 2) :
          promises[2 * p - 1].changeInfo = promises[2 * p].changeInfo
    /\ (coverageData = <<>>) = (promises = <<>>)

\* C27: whenever updateCoverageDataIfNecessary is called with a valid key and
\* there is no entry or the key differs from the entry's key in host, project,
\* changeNum or patchNum, the entry is replaced as a whole and exactly one
\* lines fetch and one percentages fetch for the new key are started in the
\* same step; otherwise entry and fetches are left alone. Hence the fetches
\* come in pairs, one pair for each replacement.
C27_ReplacementStartsBothFetches ==
    /\ [](C27_FetchesMatchReplacements)
    /\ [](C27_DifferenceReplaces)
    /\ [][C27_ReplacementStep]_vars

\* C27 witness: the entry was replaced for a key that differs from the key
\* before in the host alone, and the second pair of fetches is for it.
C27_Witness ==
    /\ Len(promises) = 4
    /\ promises[3].changeInfo.host # promises[1].changeInfo.host
    /\ promises[3].changeInfo.project = promises[1].changeInfo.project
    /\ promises[3].changeInfo.changeNum = promises[1].changeInfo.changeNum
    /\ promises[3].changeInfo.patchNum = promises[1].changeInfo.patchNum
    /\ coverageData[1].changeInfo = promises[3].changeInfo
    /\ coverageData[1].rangesPromise = 3
    /\ coverageData[1].percentagesPromise = 4

\* Every promise ever stored in an entry carries its rejection handler.
C28_HandlerAttached ==
    \A p \in 1..Len(promises) : promises[p].handled

\* A rejected promise had its reason logged by that handler.
C28_RejectionLogged ==
    \A p \in 1..Len(promises) :
        promises[p].state = "rejected" => promises[p].warned

\* The call that starts the fetches returns without throwing.
C28_CreationStep ==
    Len(promises') > Len(promises) =>
        /\ returned' = <<>>
        /\ \A p \in (Len(promises) + 1)..Len(promises') :
              promises'[p].state = "pending" /\ promises'[p].handled

\* C28: a failing background fetch never surfaces when it is created:
\* prefetchCoverageRanges, and updateCoverageDataIfNecessary in it, return
\* normally, every promise stored in an entry has a rejection handler from
\* the moment it is created, and a rejected fetch no accessor awaits is logged.
C28_BackgroundFailureOnlyLogged ==
    /\ [](C28_HandlerAttached)
    /\ [](C28_RejectionLogged)
    /\ [][C28_CreationStep]_vars

\* C28 witness: the lines fetch of the first entry was rejected after the
\* cache had moved on to the next key; no accessor was ever called.
C28_Witness ==
    /\ Len(promises) = 4
    /\ promises[1].state = "rejected"
    /\ promises[1].warned
    /\ promises[3].state = "pending"
    /\ coverageData[1].rangesPromise = 3
    /\ calls = {}

\* The promise of the entry an accessor awaits.
PromiseAwaitedBy(op, entry) ==
    IF op = "provideCoverageRanges" THEN entry.rangesPromise ELSE entry.percentagesPromise

\* What an accessor returns when the promise it awaited was rejected.
NoDataValue(op) ==
    CASE op = "provideCoverageRanges" -> UndefinedValue
      [] op = "provideCoveragePercentages" -> NullValue
      [] OTHER -> [t |-> "response", v |-> EmptyFetchResponse]

\* An accessor called with the current key after the fetch it needs has failed
\* starts nothing and awaits the failed promise of the entry.
C29_CallStep ==
    \A c \in calls' \ calls :
        (/\ coverageData # <<>>
         /\ c.changeInfo = coverageData[1].changeInfo
         /\ promises[PromiseAwaitedBy(c.op, coverageData[1])].state = "rejected")
        => /\ promises' = promises
           /\ coverageData' = coverageData
           /\ c.promise = PromiseAwaitedBy(c.op, coverageData[1])

\* A call that awaited a failed fetch returned the no-data value.
C29_FailedGivesNoData ==
    (/\ returned # <<>>
     /\ returned[1].outcome = "resolved"
     /\ returned[1].promise # 0
     /\ promises[returned[1].promise].state = "rejected")
    => returned[1].value = NoDataValue(returned[1].op)

\* Two fetches of a kind started one after the other are never for the same
\* key: a second attempt for a key comes only after an entry of another key.
C29_AttemptsSeparatedByOtherKey ==
    \A p \in 1..(Len(promises) - 2) :
        promises[p].changeInfo # promises[p + 2].changeInfo

\* C29: no retry. After the fetch of a kind for key K has failed, an accessor
\* call with key K made while K is the current key starts no fetch and returns
\* the no-data value; a new attempt for K is started only after the cache has
\* moved to another key and back.
C29_NoRetryWhileCurrent ==
    /\ [](C29_FailedGivesNoData)
    /\ [](C29_AttemptsSeparatedByOtherKey)
    /\ [][C29_CallStep]_vars

\* C29 witness: the lines fetch for a key failed, the cache moved to another
\* key and back, the second attempt failed as well, and an accessor called with
\* the key awaits the failed promise while no further fetch was started.
C29_Witness ==
    /\ Len(promises) = 6
    /\ promises[1].changeInfo = promises[5].changeInfo
    /\ promises[3].changeInfo # promises[1].changeInfo
    /\ promises[1].state = "rejected"
    /\ promises[5].state = "rejected"
    /\ coverageData[1].rangesPromise = 5
    /\ \E c \in calls : /\ c.op = "provideCoverageRanges"
                         /\ c.changeInfo = coverageData[1].changeInfo
                         /\ c.promise = 5

\* The arguments of prefetchCoverageRanges with a positive change number and
\* a positive numeric revision number.
PositivePrefetches ==
    {<<HostPlain, [project |-> ProjectA, _number |-> number], revision>> :
        number \in {n \in ChangeNumbers : n.t = "num" /\ n.v > 0},
        revision \in {r \in RevisionNumbers : r.type = "number" /\ r.n > 0}}

\* prefetchCoverageRanges with such arguments can only end with an entry for
\* (normalized host, change.project, change._number, revision._number).
C30_PrefetchSetsKey ==
    \A arguments \in PositivePrefetches :
        ENABLED (/\ PrefetchCoverageRanges(arguments[1], arguments[2], arguments[3])
                 /\ coverageData' # <<>>
                 /\ coverageData'[1].changeInfo =
                        [host |-> getNormalizedHost(arguments[1]),
                         project |-> arguments[2].project,
                         changeNum |-> arguments[2]._number,
                         patchNum |-> Num(arguments[3].n)])

\* The ranges promise of an entry, once the service has answered, holds the
\* converted ranges of the answer.
C30_PromiseHoldsConvertedRanges ==
    (/\ coverageData # <<>>
     /\ promises[coverageData[1].rangesPromise].net = "ok")
    => LET promise == promises[coverageData[1].rangesPromise]
           converted == convertResponseJsonToCoverageRanges(
                            ServiceLinesBody(coverageData[1].changeInfo))
       IN  /\ promise.state = "fulfilled"
           /\ promise.kind = "lines"
           /\ converted.ok
           /\ PromiseValue(promise) = converted.value

\* provideCoverageRanges for the key of the entry starts nothing and awaits
\* the promise of the entry.
C30_FollowingCallStep ==
    \A c \in calls' \ calls :
        /\ promises' = promises
        /\ coverageData' = coverageData
        /\ c.changeInfo = coverageData[1].changeInfo
        /\ c.promise = coverageData[1].rangesPromise

\* What such a call returns is read from the value of the promise it awaited.
C30_ServedFromPromise ==
    (/\ returned # <<>>
     /\ returned[1].outcome = "resolved"
     /\ promises[returned[1].promise].state = "fulfilled")
    => LET coverageRanges == PromiseValue(promises[returned[1].promise])
       IN  /\ promises[returned[1].promise].changeInfo = returned[1].changeInfo
           /\ returned[1].value =
                 [t |-> "array",
                  v |-> IF ObjHas(coverageRanges, returned[1].path)
                        THEN ObjGet(coverageRanges, returned[1].path) ELSE <<>>]

\* C30: after prefetchCoverageRanges(change, revision) with a positive change
\* number and a positive numeric revision number the entry's key is
\* (normalized host, change.project, change._number, revision._number) and its
\* rangesPromise resolves to the converted ranges; a following
\* provideCoverageRanges for the same host, project, change and patchset
\* starts no further fetch and is served from the prefetched promise.
C30_PrefetchServesAccessor ==
    /\ [](C30_PrefetchSetsKey)
    /\ [](C30_PromiseHoldsConvertedRanges)
    /\ [](C30_ServedFromPromise)
    /\ [][C30_FollowingCallStep]_vars

\* C30 witness: the one fetch pair started by the prefetch is all there is,
\* and provideCoverageRanges returned the ranges of a.cc from its promise.
C30_Witness ==
    /\ Len(promises) = 2
    /\ promises[1].net = "ok"
    /\ coverageData[1].rangesPromise = 1
    /\ returned # <<>>
    /\ returned[1].op = "provideCoverageRanges"
    /\ returned[1].promise = 1
    /\ returned[1].path = "a.cc"
    /\ returned[1].value.t = "array"
    /\ returned[1].value.v # <<>>

\* C31 as stated: an accessor called with an invalid key never returns
\* coverage data fetched for another key: provideCoverageRanges returns
\* undefined or an empty list, provideCoveragePercentages no PercentageData
\* and mayBeShowLowCoverageWarning no warnings.
C31_InvalidKeyReturnsNoData ==
    (/\ returned # <<>>
     /\ returned[1].outcome = "resolved"
     /\ returned[1].op \in {"provideCoverageRanges", "provideCoveragePercentages",
                            "mayBeShowLowCoverageWarning"}
     /\ ~KeyIsValid(returned[1].changeInfo))
    => CASE returned[1].op = "provideCoverageRanges" ->
              \/ returned[1].value.t = "undefined"
              \/ returned[1].value.t = "array" /\ returned[1].value.v = <<>>
         [] returned[1].op = "provideCoveragePercentages" ->
              returned[1].value.t # "object"
         [] OTHER ->
              WarningsOf(returned[1].value.v.runs) = <<>>

\* The call has returned to its caller.
HasReturned(c) ==
    /\ returned # <<>>
    /\ returned[1].outcome = "resolved"
    /\ returned[1].op = c.op
    /\ returned[1].changeInfo = c.changeInfo
    /\ returned[1].path = c.path
    /\ returned[1].promise = c.promise

\* Every suspended call is one of SuspendedCalls, so the calls below are all.
C32_CallsKnown == calls \subseteq SuspendedCalls(MaxReplacements)

\* No fetch is cancelled: a started fetch stays, whatever the entry becomes,
\* and only changes by settling.
C32_NoCancellationStep ==
    /\ Len(promises') >= Len(promises)
    /\ \A p \in 1..Len(promises) :
          /\ promises'[p].kind = promises[p].kind
          /\ promises'[p].changeInfo = promises[p].changeInfo
          /\ promises[p].state # "pending" => promises'[p] = promises[p]

\* C32: provided every started fetch settles, every call of
\* provideCoverageRanges, provideCoveragePercentages and
\* mayBeShowLowCoverageWarning returns at some time, however often the key
\* changes while it waits; a superseded fetch is never cancelled and a call
\* waiting on it is never left pending.
C32_EveryCallReturns ==
    /\ [](C32_CallsKnown)
    /\ [][C32_NoCancellationStep]_vars
    /\ \A c \in SuspendedCalls(MaxReplacements) : (c \in calls) ~> HasReturned(c)

\* C32 witness: a call returned from the promise of an entry that had been
\* replaced while the call was waiting.
C32_Witness ==
    /\ returned # <<>>
    /\ returned[1].outcome = "resolved"
    /\ returned[1].promise # 0
    /\ Len(promises) = 4
    /\ returned[1].promise <= 2
    /\ coverageData[1].rangesPromise = 3

\* The files of the response with a line entry that has no count property.
FilesWithCountlessEntry ==
    {i \in 1..Len(ConvertedFiles) :
        /\ "lines" \in DOMAIN ConvertedFiles[i]
        /\ \E k \in 1..Len(ConvertedFiles[i].lines) :
              "count" \notin DOMAIN ConvertedFiles[i].lines[k]}

\* C37 as stated: a line entry without a count property makes
\* convertResponseJsonToCoverageRanges fail with a malformed-response error,
\* as an entry whose count is null does; no range is made of such an entry.
C37_MissingCountRejected ==
    ConversionDone /\ FilesWithCountlessEntry # {} => ConversionFailedMalformed

\* A file entry or a line entry of the lines response fails the format check
\* made of it: a file without path or with an empty one or without a line list,
\* a line entry whose line is missing or falsy or whose count is null.
HasMalformedEntry(responseJson) ==
    \E i \in 1..Len(responseJson.data.files) :
        LET f == responseJson.data.files[i]
        IN  \/ "path" \notin DOMAIN f
            \/ f.path = ""
            \/ "lines" \notin DOMAIN f
            \/ \E k \in 1..Len(f.lines) :
                  \/ "line" \notin DOMAIN f.lines[k]
                  \/ ~TruthyNum(f.lines[k].line)
                  \/ ("count" \in DOMAIN f.lines[k] /\ f.lines[k].count = Null)

\* The lines response a settled lines fetch got had such an entry: the fetch
\* was rejected (every rejection of SpecMalformed is one for such a response),
\* or it was fulfilled from such a response.
LinesResponseWasMalformed(promise) ==
    /\ promise.kind = "lines"
    /\ \/ promise.state = "rejected"
       \/ /\ promise.state = "fulfilled"
          /\ promise.net \in PartlyMalformedOutcomes
          /\ HasMalformedEntry(PartlyMalformedLinesBody(promise.changeInfo, promise.net))

\* C33: conversion failure is all-or-nothing for a key: when a file entry or
\* a line entry of the lines response for K is malformed, no map at all comes
\* of the response, and every provideCoverageRanges call for K, started before
\* or after the response came, returns undefined for every path, the paths of
\* well-formed files that precede the malformed entry included.
C33_MalformedEntryFailsWholeKey ==
    /\ \A p \in 1..Len(promises) :
          LinesResponseWasMalformed(promises[p]) => promises[p].state = "rejected"
    /\ (/\ ReturnedFrom("provideCoverageRanges")
        /\ returned[1].promise # 0
        /\ LinesResponseWasMalformed(promises[returned[1].promise]))
       => returned[1].value = UndefinedValue

\* C33 witness: the response for the key had the well-formed file a.cc in
\* front of a malformed one, and the call for a.cc returned undefined.
C33_Witness ==
    /\ ReturnedFrom("provideCoverageRanges")
    /\ KeyIsValid(returned[1].changeInfo)
    /\ returned[1].path = "a.cc"
    /\ returned[1].promise # 0
    /\ promises[returned[1].promise].changeInfo = returned[1].changeInfo
    /\ promises[returned[1].promise].kind = "lines"
    /\ promises[returned[1].promise].state = "rejected"
    /\ returned[1].value = UndefinedValue

\* A suspended showPercentageColumns call awaits the lookup of the project
\* the window path named when it started.
C34_AwaitsOwnLookup ==
    \A c \in columnCalls : configPromises[c.promise].project = c.project

\* What a call resolved to is the enabled flag its own project's lookup
\* answered, and false when that lookup failed.
C34_ReturnsOwnFlag ==
    (/\ returned # <<>>
     /\ returned[1].op = "showPercentageColumns"
     /\ returned[1].outcome = "resolved")
    => LET lookup == configPromises[returned[1].promise]
       IN  /\ lookup.project = returned[1].project
           /\ lookup.state # "pending"
           /\ returned[1].value.v = (lookup.state = "fulfilled" /\ lookup.answer = "enabled")

\* C34: a showPercentageColumns call started while the window path named
\* project P returns the enabled flag of P's config lookup, or false if that
\* lookup failed, even when a later call for another project replaces the
\* config entry before P's lookup settles.
C34_CallKeepsItsProject ==
    /\ [](C34_AwaitsOwnLookup)
    /\ [](C34_ReturnsOwnFlag)

\* C34 witness: a call returned true from the lookup of its project after the
\* entry had been replaced by one of another project, whose lookup does not
\* answer enabled.
C34_Witness ==
    /\ returned # <<>>
    /\ returned[1].op = "showPercentageColumns"
    /\ returned[1].outcome = "resolved"
    /\ returned[1].value.v = TRUE
    /\ coverageConfig[1].project # returned[1].project
    /\ coverageConfig[1].configPromise > returned[1].promise
    /\ ~LookupEnabled(coverageConfig[1].configPromise)

(***************************************************************************)
(* Percentage content views (C35, C36)                                     *)
(***************************************************************************)
\* One of changeNum, patchRange and path of the view is unset.
ViewUnset(v) == v.changeNum = "" \/ v.patchRange = <<>> \/ v.path = ""

\* The suspended computePercentage call that this step resumes.
ProviderSettleStep(call) ==
    /\ call \in providerCalls
    /\ providerCalls' = providerCalls \ {call}

\* The text for a provider result p in a view of kind k: '<n>%' with n the
\* field k of p when p contains the field, '-' when p is null or lacks it.
TextOfField(kind, p) ==
    IF p.t = "object" /\ kind \in DOMAIN p.v
    THEN PercentageToString(p.v[kind]) \o <<"%">>
    ELSE <<"-">>

\* C36: a content view of kind k shows '<n>%', n being field k of the
\* provider's result, whenever the result contains field k, and shows '-'
\* when the result is null or lacks field k, or when changeNum, patchRange or
\* path is unset.
C36_ShowsFieldOfKind ==
    [][/\ \A call \in providerCalls :
             ProviderSettleStep(call)
             => contentView'.percentageText =
                    TextOfField(contentView.kind, ProviderResult(call))
       /\ (providerCalls' = providerCalls /\ contentView' # contentView
              /\ ViewUnset(contentView'))
             => contentView'.percentageText = <<"-">>]_vars

\* The arguments computePercentage passes to the provider for the view's
\* present properties.
LatestCall ==
    [changeNum |-> contentView.changeNum, path |-> contentView.path,
     patchNum |-> contentView.patchRange[1].patchNum]

\* C35: once every provider call of the view has settled, percentageText is
\* the text of the provider's result for the view's latest changeNum,
\* patchNum and path: a call started earlier that settles later does not
\* overwrite the text of a later call.
C35_LatestCallWins ==
    providerCalls = {}
    => contentView.percentageText =
          IF ViewUnset(contentView)
          THEN <<"-">>
          ELSE PercentageText(contentView.kind, ProviderResult(LatestCall))

====
